---------------------------- MODULE Spec2Model ----------------------------
(***************************************************************************)
(* A model of labrat: the key codec (src/src/keys.rs), the markup          *)
(* simplifier (src/src/html.rs) and the resource extraction engine         *)
(* (src/src/resources.rs and src/src/resources/).                          *)
(*                                                                         *)
(* Text is a sequence of pieces.  A piece is one character ("v", "/", "7") *)
(* or a literal of the program text pushed as a whole (the origin          *)
(* "https://www.furaffinity.net", a fixed tag such as "<strong>").         *)
(* Option<T> is a sequence of length at most one: None is <<>>, Some(x) is *)
(* <<x>>.  Result<T, E> is a record: [ok |-> TRUE, val |-> v] or           *)
(* [ok |-> FALSE, err |-> e].                                              *)
(***************************************************************************)
EXTENDS Integers, Sequences, FiniteSets, TLC

VARIABLES
    input,      \* keys: the parts the URL text is written from
    text,       \* keys: the text handed to Url::parse
    url,        \* keys: Result of Url::parse(text)
    keyType,    \* keys: which key type's TryFrom<&Url> was applied
    key,        \* keys: Result of that TryFrom
    favMode,    \* keys: Option<bool>, the boolean given to FavKey::suffix
    text2,      \* keys: the text formatted from the key
    url2,       \* keys: Option<Url>, the Url made from the key
    key2,       \* keys: Option<Result>, TryFrom applied to url2
    stage,      \* keys: "text", "url", "parsed", "formatted", "reparsed"
    doc,        \* html: the element subtree handed to simplify
    edge,       \* html: the traversal's current edge
    output,     \* html: the output string built so far
    done,       \* html: simplify has returned
    page,       \* extraction: the element or document, with the call's arguments
    pc,         \* extraction: the position of the caller
    fields,     \* extraction: what the calls before the last one returned
    result,     \* extraction: Option<Result>, what the last call returned
    client,     \* client: the reqwest::Client inside Client::client
    lock        \* client: the RwLock of Client::client

keyVars == <<input, text, url, keyType, key, favMode, text2, url2, key2, stage>>
htmlVars == <<doc, edge, output, done>>
extractVars == <<page, pc, fields, result>>
clientVars == <<client, lock>>
vars == <<input, text, url, keyType, key, favMode, text2, url2, key2, stage,
          doc, edge, output, done, page, pc, fields, result, client, lock>>

-----------------------------------------------------------------------------
(* Bounds of the model.                                                    *)

\* the longest text of an integer segment, cursor or fragment suffix
MaxIdLen == 2
\* u64::MAX scaled down, so that texts of MaxIdLen digits can overflow
U64Max == 75

-----------------------------------------------------------------------------
(* Option and Result.                                                      *)

None == <<>>
Some(x) == <<x>>
Unwrap(o) == o[1]

Ok(v) == [ok |-> TRUE, val |-> v]
Err(e) == [ok |-> FALSE, err |-> e]

-----------------------------------------------------------------------------
(* str operations of the standard library, on sequences of pieces.         *)

\* the index of the first piece of s equal to c, or 0
RECURSIVE IndexFrom(_, _, _)
IndexFrom(s, c, i) ==
    IF i > Len(s) THEN 0
    ELSE IF s[i] = c THEN i
    ELSE IndexFrom(s, c, i + 1)

IndexOf(s, c) == IndexFrom(s, c, 1)

\* str::split(c), collected: always at least one item
RECURSIVE Split(_, _)
Split(s, c) ==
    LET i == IndexOf(s, c)
    IN  IF i = 0 THEN <<s>>
        ELSE <<SubSeq(s, 1, i - 1)>> \o Split(SubSeq(s, i + 1, Len(s)), c)

\* Iterator::next() at position i of a collected iterator
NextAt(items, i) == IF i <= Len(items) THEN Some(items[i]) ELSE None

StartsWith(s, p) == Len(s) >= Len(p) /\ SubSeq(s, 1, Len(p)) = p

EndsWith(s, p) ==
    Len(s) >= Len(p) /\ SubSeq(s, Len(s) - Len(p) + 1, Len(s)) = p

Digits == <<"0", "1", "2", "3", "4", "5", "6", "7", "8", "9">>

IsDigit(c) == \E d \in 1..10 : Digits[d] = c

DigitValue(c) == (CHOOSE d \in 1..10 : Digits[d] = c) - 1

\* the value of a text of digits, saturating above U64Max
RECURSIVE DigitsValue(_, _)
DigitsValue(s, acc) ==
    IF s = <<>> THEN acc
    ELSE LET v == acc * 10 + DigitValue(Head(s))
         IN  IF v > U64Max THEN U64Max + 1 ELSE DigitsValue(Tail(s), v)

\* <u64 as FromStr>::from_str: an optional "+", then one or more digits, no
\* overflow; every failure is a ParseIntError
ParseU64(s) ==
    LET body == IF s # <<>> /\ Head(s) = "+" THEN Tail(s) ELSE s
    IN  IF body = <<>> THEN Err("ParseIntError")
        ELSE IF \E i \in 1..Len(body) : ~IsDigit(body[i])
             THEN Err("ParseIntError")
        ELSE IF DigitsValue(body, 0) > U64Max THEN Err("ParseIntError")
        ELSE Ok(DigitsValue(body, 0))

\* format!("{}", n) of an unsigned integer
RECURSIVE FormatU64(_)
FormatU64(n) ==
    IF n < 10 THEN <<Digits[n + 1]>>
    ELSE FormatU64(n \div 10) \o <<Digits[(n % 10) + 1]>>

-----------------------------------------------------------------------------
(* Literals of the program text.                                           *)

Origin == "https://www.furaffinity.net"
OtherOrigin == "https://example.org"
Origins == {Origin, OtherOrigin}

\* the host of the preview images, as the text a reference names it by and
\* as the origin of a Url
CdnHost == "t.facdn.net"
CdnOrigin == "https://t.facdn.net"

\* the host of the avatars, likewise
AvatarHost == "a.facdn.net"
AvatarOrigin == "https://a.facdn.net"

sView == <<"v", "i", "e", "w">>
sJournal == <<"j", "o", "u", "r", "n", "a", "l">>
sMsg == <<"m", "s", "g">>
sSubmissions == <<"s", "u", "b", "m", "i", "s", "s", "i", "o", "n", "s">>
sSubmission == <<"s", "u", "b", "m", "i", "s", "s", "i", "o", "n">>
sFav == <<"f", "a", "v">>
sUnfav == <<"u", "n", "f", "a", "v">>
sReplyto == <<"r", "e", "p", "l", "y", "t", "o">>
sNew == <<"n", "e", "w">>
sOld == <<"o", "l", "d">>
sCid == <<"c", "i", "d", ":">>
sKey == <<"k", "e", "y">>
sUser == <<"u", "s", "e", "r">>

-----------------------------------------------------------------------------
(* The url crate, as far as the codec uses it.                             *)

\* Url::parse of an absolute URL text: the origin, then path, query and
\* fragment.  An empty path of an http(s) URL is "/".  A text with no
\* origin is a relative URL, which Url::parse refuses.
UrlParse(t) ==
    IF t = <<>> \/ Head(t) \notin Origins \cup {CdnOrigin, AvatarOrigin}
    THEN Err("MalformedUrl")
    ELSE
    LET rest == Tail(t)
        hashAt == IndexOf(rest, "#")
        beforeHash == IF hashAt = 0 THEN rest ELSE SubSeq(rest, 1, hashAt - 1)
        frag == IF hashAt = 0 THEN None
                ELSE Some(SubSeq(rest, hashAt + 1, Len(rest)))
        qAt == IndexOf(beforeHash, "?")
        rawPath == IF qAt = 0 THEN beforeHash
                   ELSE SubSeq(beforeHash, 1, qAt - 1)
        qry == IF qAt = 0 THEN None
               ELSE Some(SubSeq(beforeHash, qAt + 1, Len(beforeHash)))
        path == IF rawPath = <<>> THEN <<"/">> ELSE rawPath
    IN  IF Head(path) # "/" THEN Err("MalformedUrl")
        ELSE Ok([origin |-> Head(t), path |-> path,
                 query |-> qry, fragment |-> frag])

\* Url::path_segments, collected: the path after its leading "/", split at
\* every "/" (so a path ending in "/" has an empty last segment)
PathSegments(u) == Split(Tail(u.path), "/")

\* Url::fragment
Fragment(u) == u.fragment

\* Url::query_pairs, collected: the query split at "&", each pair at its
\* first "="
QueryPair(p) ==
    LET i == IndexOf(p, "=")
    IN  IF i = 0 THEN <<p, <<>> >>
        ELSE <<SubSeq(p, 1, i - 1), SubSeq(p, i + 1, Len(p))>>

RECURSIVE QueryPairsOf(_)
QueryPairsOf(items) ==
    IF items = <<>> THEN <<>>
    ELSE IF Head(items) = <<>> THEN QueryPairsOf(Tail(items))
    ELSE <<QueryPair(Head(items))>> \o QueryPairsOf(Tail(items))

QueryPairs(u) ==
    IF u.query = None THEN <<>> ELSE QueryPairsOf(Split(Unwrap(u.query), "&"))

-----------------------------------------------------------------------------
(* Order (src/src/resources/msg/submissions.rs).                           *)

OrderText(order) == IF order = "Ascending" THEN sOld ELSE sNew

-----------------------------------------------------------------------------
(* SubmissionsKey.                                                         *)

SubmissionsKeyOf(order, after) ==
    [type |-> "SubmissionsKey", order |-> order, after |-> after]

SubmissionsKeyDefault == SubmissionsKeyOf("Ascending", None)

\* SubmissionsKeyTryFrom without the split at "@": the page size stays in
\* the cursor's text
SubmissionsKeyTryFrom_NoAtSplit(u) ==
    LET path == PathSegments(u)
        third == NextAt(path, 3)
        parts == Split(Unwrap(third), "~")
        order_txt == parts[1]
        cursor == NextAt(parts, 2)
    IN  IF NextAt(path, 1) # Some(sMsg) THEN Err("MissingSegment")
        ELSE IF NextAt(path, 2) # Some(sSubmissions) THEN Err("MissingSegment")
        ELSE IF third = None THEN Ok(SubmissionsKeyDefault)
        ELSE IF order_txt # sNew /\ order_txt # sOld THEN Err("MissingSegment")
        ELSE IF cursor = None
             THEN Ok(SubmissionsKeyOf(
                      IF order_txt = sNew THEN "Descending" ELSE "Ascending",
                      None))
        ELSE IF ~ParseU64(Unwrap(cursor)).ok THEN Err("ParseIntError")
        ELSE Ok(SubmissionsKeyOf(
                    IF order_txt = sNew THEN "Descending" ELSE "Ascending",
                    Some(ParseU64(Unwrap(cursor)).val)))

\* impl TryFrom<&Url> for SubmissionsKey
SubmissionsKeyTryFrom(u) ==
    LET path == PathSegments(u)
        third == NextAt(path, 3)
        order_id == Head(Split(Unwrap(third), "@"))
        parts == Split(order_id, "~")
        order_txt == parts[1]
        cursor == NextAt(parts, 2)
    IN  IF NextAt(path, 1) # Some(sMsg) THEN Err("MissingSegment")
        ELSE IF NextAt(path, 2) # Some(sSubmissions) THEN Err("MissingSegment")
        ELSE IF third = None THEN Ok(SubmissionsKeyDefault)
        ELSE IF order_txt # sNew /\ order_txt # sOld THEN Err("MissingSegment")
        ELSE IF cursor = None
             THEN Ok(SubmissionsKeyOf(
                      IF order_txt = sNew THEN "Descending" ELSE "Ascending",
                      None))
        ELSE IF ~ParseU64(Unwrap(cursor)).ok THEN Err("ParseIntError")
        ELSE Ok(SubmissionsKeyOf(
                    IF order_txt = sNew THEN "Descending" ELSE "Ascending",
                    Some(ParseU64(Unwrap(cursor)).val)))

\* SubmissionsKeyUrlText with the cursor left out of the text
SubmissionsKeyUrlText_NoCursor(k) ==
    <<Origin, "/">> \o sMsg \o <<"/">> \o sSubmissions \o <<"/">>
    \o OrderText(k.order) \o <<"@", "7", "2", "/">>

\* the text formatted by impl From<&SubmissionsKey> for Url
SubmissionsKeyUrlText(k) ==
    LET after == IF k.after = None THEN <<>>
                 ELSE <<"~">> \o FormatU64(Unwrap(k.after))
    IN  <<Origin, "/">> \o sMsg \o <<"/">> \o sSubmissions \o <<"/">>
        \o OrderText(k.order) \o after \o <<"@", "7", "2", "/">>

\* impl From<&SubmissionsKey> for Url
UrlFromSubmissionsKey(k) == UrlParse(SubmissionsKeyUrlText(k)).val

-----------------------------------------------------------------------------
(* FavKey.                                                                 *)

FavKeyOf(view_id, k) == [type |-> "FavKey", view_id |-> view_id, key |-> k]

\* FavKey::suffix with the boolean ignored
FavKeySuffix_AlwaysFav(k, fav) ==
    sFav \o <<"/">> \o FormatU64(k.view_id) \o <<"/", "?">> \o sKey
    \o <<"=">> \o k.key

\* FavKey::suffix
FavKeySuffix(k, fav) ==
    IF fav
    THEN sFav \o <<"/">> \o FormatU64(k.view_id) \o <<"/", "?">> \o sKey
         \o <<"=">> \o k.key
    ELSE sUnfav \o <<"/">> \o FormatU64(k.view_id) \o <<"/", "?">> \o sKey
         \o <<"=">> \o k.key

\* the first query pair named "key", as the loop of FavKey's TryFrom finds it
RECURSIVE FirstKeyPair(_)
FirstKeyPair(pairs) ==
    IF pairs = <<>> THEN None
    ELSE IF Head(pairs)[1] = sKey THEN Some(Head(pairs)[2])
    ELSE FirstKeyPair(Tail(pairs))

\* impl TryFrom<&Url> for FavKey
FavKeyTryFrom(u) ==
    LET path == PathSegments(u)
        mode == NextAt(path, 1)
        idText == NextAt(path, 2)
        found == FirstKeyPair(QueryPairs(u))
    IN  IF mode # Some(sFav) /\ mode # Some(sUnfav) THEN Err("MissingSegment")
        ELSE IF idText = None THEN Err("MissingSegment")
        ELSE IF ~ParseU64(Unwrap(idText)).ok THEN Err("ParseIntError")
        ELSE IF found = None THEN Err("MissingSegment")
        ELSE Ok(FavKeyOf(ParseU64(Unwrap(idText)).val, Unwrap(found)))

\* the text Client::maybe_fav formats (src/src/client.rs)
FavKeyUrlText(k, fav) == <<Origin, "/">> \o FavKeySuffix(k, fav)

\* the Url Client::maybe_fav requests
UrlFromFavKey(k, fav) == UrlParse(FavKeyUrlText(k, fav)).val

-----------------------------------------------------------------------------
(* ReplyTo and CommentReplyKey.                                            *)

ReplyToOf(variant, id) == [type |-> "ReplyTo", variant |-> variant, id |-> id]

\* ReplyToUrlText with a comment target written in the page form
ReplyToUrlText_PageForm(r) ==
    IF r.variant = "View" \/ r.variant = "ViewComment"
    THEN <<Origin, "/">> \o sView \o <<"/">> \o FormatU64(r.id) \o <<"/">>
    ELSE <<Origin, "/">> \o sJournal \o <<"/">> \o FormatU64(r.id) \o <<"/">>

\* the text formatted by impl From<&ReplyTo> for Url
ReplyToUrlText(r) ==
    IF r.variant = "View"
    THEN <<Origin, "/">> \o sView \o <<"/">> \o FormatU64(r.id) \o <<"/">>
    ELSE IF r.variant = "Journal"
    THEN <<Origin, "/">> \o sJournal \o <<"/">> \o FormatU64(r.id) \o <<"/">>
    ELSE IF r.variant = "ViewComment"
    THEN <<Origin, "/">> \o sReplyto \o <<"/">> \o sSubmission \o <<"/">>
         \o FormatU64(r.id) \o <<"/">>
    ELSE <<Origin, "/">> \o sReplyto \o <<"/">> \o sJournal \o <<"/">>
         \o FormatU64(r.id) \o <<"/">>

\* impl From<&ReplyTo> for Url
UrlFromReplyTo(r) == UrlParse(ReplyToUrlText(r)).val

\* parse_fragment with a fragment that is not "cid:..." taken as no fragment
ParseFragment_Fallback(u) ==
    IF Fragment(u) = None THEN None
    ELSE LET fragment == Unwrap(Fragment(u))
         IN  IF ~StartsWith(fragment, sCid) THEN None
             ELSE Some(ParseU64(SubSeq(fragment, 5, Len(fragment))))

\* ReplyTo::parse_fragment: Option<Result<u64, FromUrlError>>
ParseFragment(u) ==
    IF Fragment(u) = None THEN None
    ELSE LET fragment == Unwrap(Fragment(u))
         IN  IF ~StartsWith(fragment, sCid) THEN Some(Err("MissingSegment"))
             ELSE Some(ParseU64(SubSeq(fragment, 5, Len(fragment))))

\* the page arm with the fragment's comment id taken for the page's id
ReplyToPage_FragmentAsPage(u, path, plain, comment) ==
    LET frag == ParseFragment(u)
        id == NextAt(path, 2)
    IN  IF frag # None /\ ~Unwrap(frag).ok THEN Err(Unwrap(frag).err)
        ELSE IF frag # None THEN Ok(ReplyToOf(plain, Unwrap(frag).val))
        ELSE IF id = None THEN Err("MissingSegment")
        ELSE IF ~ParseU64(Unwrap(id)).ok THEN Err("ParseIntError")
        ELSE Ok(ReplyToOf(plain, ParseU64(Unwrap(id)).val))

\* the arm shared by Some("journal") and Some("view") in ReplyTo's TryFrom
ReplyToPage(u, path, plain, comment) ==
    LET frag == ParseFragment(u)
        id == NextAt(path, 2)
    IN  IF frag # None /\ ~Unwrap(frag).ok THEN Err(Unwrap(frag).err)
        ELSE IF frag # None THEN Ok(ReplyToOf(comment, Unwrap(frag).val))
        ELSE IF id = None THEN Err("MissingSegment")
        ELSE IF ~ParseU64(Unwrap(id)).ok THEN Err("ParseIntError")
        ELSE Ok(ReplyToOf(plain, ParseU64(Unwrap(id)).val))

\* impl TryFrom<&Url> for ReplyTo
ReplyToTryFrom(u) ==
    LET path == PathSegments(u)
        first == NextAt(path, 1)
        v == NextAt(path, 2)
        cid == NextAt(path, 3)
    IN  IF first = None THEN Err("MissingSegment")
        ELSE IF first = Some(sJournal)
             THEN ReplyToPage(u, path, "Journal", "JournalComment")
        ELSE IF first = Some(sView)
             THEN ReplyToPage(u, path, "View", "ViewComment")
        ELSE IF first = Some(sReplyto)
             THEN IF v = None THEN Err("MissingSegment")
                  ELSE IF cid = None THEN Err("MissingSegment")
                  ELSE IF ~ParseU64(Unwrap(cid)).ok THEN Err("ParseIntError")
                  ELSE IF v = Some(sJournal)
                       THEN Ok(ReplyToOf("JournalComment",
                                         ParseU64(Unwrap(cid)).val))
                  ELSE IF v = Some(sSubmission)
                       THEN Ok(ReplyToOf("ViewComment",
                                         ParseU64(Unwrap(cid)).val))
                  ELSE Err("MissingSegment")
        ELSE Err("MissingSegment")

CommentReplyKeyOf(r) == [type |-> "CommentReplyKey", reply_to |-> r]

\* impl TryFrom<&Url> for CommentReplyKey
CommentReplyKeyTryFrom(u) ==
    IF ReplyToTryFrom(u).ok THEN Ok(CommentReplyKeyOf(ReplyToTryFrom(u).val))
    ELSE ReplyToTryFrom(u)

\* impl From<&CommentReplyKey> for Url
UrlFromCommentReplyKey(k) == UrlFromReplyTo(k.reply_to)

-----------------------------------------------------------------------------
(* ViewKey.                                                                *)

ViewKeyOf(view_id) == [type |-> "ViewKey", view_id |-> view_id]

\* ViewKeyTryFrom without the check of the literal "view"
ViewKeyTryFrom_AnyLiteral(u) ==
    LET segments == PathSegments(u)
        txt == NextAt(segments, 2)
    IN  IF txt = None THEN Err("MissingSegment")
        ELSE IF ~ParseU64(Unwrap(txt)).ok THEN Err("ParseIntError")
        ELSE Ok(ViewKeyOf(ParseU64(Unwrap(txt)).val))

\* impl TryFrom<&Url> for ViewKey
ViewKeyTryFrom(u) ==
    LET segments == PathSegments(u)
        txt == NextAt(segments, 2)
    IN  IF NextAt(segments, 1) # Some(sView) THEN Err("MissingSegment")
        ELSE IF txt = None THEN Err("MissingSegment")
        ELSE IF ~ParseU64(Unwrap(txt)).ok THEN Err("ParseIntError")
        ELSE Ok(ViewKeyOf(ParseU64(Unwrap(txt)).val))

\* the text formatted by impl From<ViewKey> for Url
ViewKeyUrlText(k) ==
    <<Origin, "/">> \o sView \o <<"/">> \o FormatU64(k.view_id) \o <<"/">>

\* impl From<ViewKey> for Url
UrlFromViewKey(k) == UrlParse(ViewKeyUrlText(k)).val

-----------------------------------------------------------------------------
(* JournalKey.  src/src/keys.rs does not hold its conversions; they follow *)
(* the rule of the specification, "path must be /journal/<id>/", in the    *)
(* shape of ViewKey's.                                                     *)

JournalKeyOf(journal_id) == [type |-> "JournalKey", journal_id |-> journal_id]

JournalKeyTryFrom(u) ==
    LET segments == PathSegments(u)
        txt == NextAt(segments, 2)
    IN  IF NextAt(segments, 1) # Some(sJournal) THEN Err("MissingSegment")
        ELSE IF txt = None THEN Err("MissingSegment")
        ELSE IF ~ParseU64(Unwrap(txt)).ok THEN Err("ParseIntError")
        ELSE Ok(JournalKeyOf(ParseU64(Unwrap(txt)).val))

JournalKeyUrlText(k) ==
    <<Origin, "/">> \o sJournal \o <<"/">> \o FormatU64(k.journal_id)
    \o <<"/">>

UrlFromJournalKey(k) == UrlParse(JournalKeyUrlText(k)).val

-----------------------------------------------------------------------------
(* Dispatch on the key type.                                               *)

TryFromUrl(t, u) ==
    CASE t = "ViewKey" -> ViewKeyTryFrom(u)
      [] t = "JournalKey" -> JournalKeyTryFrom(u)
      [] t = "SubmissionsKey" -> SubmissionsKeyTryFrom(u)
      [] t = "FavKey" -> FavKeyTryFrom(u)
      [] t = "CommentReplyKey" -> CommentReplyKeyTryFrom(u)

UrlTextOfKey(k) ==
    CASE k.type = "ViewKey" -> ViewKeyUrlText(k)
      [] k.type = "JournalKey" -> JournalKeyUrlText(k)
      [] k.type = "SubmissionsKey" -> SubmissionsKeyUrlText(k)
      [] k.type = "CommentReplyKey" -> ReplyToUrlText(k.reply_to)

UrlFromKey(k) ==
    CASE k.type = "ViewKey" -> UrlFromViewKey(k)
      [] k.type = "JournalKey" -> UrlFromJournalKey(k)
      [] k.type = "SubmissionsKey" -> UrlFromSubmissionsKey(k)
      [] k.type = "CommentReplyKey" -> UrlFromCommentReplyKey(k)

-----------------------------------------------------------------------------
(* The URL texts the codec is run on.  Each is written from parts, kept in *)
(* the variable input, so that a statement about "the <id> of the URL" can *)
(* name the part.                                                          *)

\* the characters of an integer segment: digits, a sign, a letter
IdAlphabet == {"0", "7", "+", "x"}

TextsOver(alphabet, n) == UNION {[1..k -> alphabet] : k \in 0..n}

IdTexts == TextsOver(IdAlphabet, MaxIdLen)

SampleIds == {<<"7">>, <<"x">>}

FragmentTexts == {<<>>, <<"x">>} \cup {sCid \o s : s \in IdTexts}

Tokens == {<<"a">>, <<"b", "7">>}

PageSizes == {<<>>, <<"4", "8">>, <<"7", "2">>, <<"x">>}

\* query strings, as sequences of <<name, Option<value>>>
Queries ==
    {<<>>} \cup {<< <<sKey, None>> >>, << <<sKey, Some(<<>>)>> >>}
    \cup {<< <<sKey, Some(t)>> >> : t \in Tokens}
    \cup {<< <<sUser, Some(t)>> >> : t \in Tokens}
    \cup {<< <<sUser, Some(<<"a">>)>>, <<sKey, Some(t)>> >> : t \in Tokens}
    \cup {<< <<sKey, Some(t)>>, <<sKey, Some(<<"a">>)>> >> : t \in Tokens}

PageInputs ==
    {[family |-> "page", origin |-> o, first |-> f, id |-> i, extra |-> e,
      slash |-> sl, fragment |-> None] :
        o \in Origins, f \in {sView, sJournal, sUser}, i \in IdTexts,
        e \in BOOLEAN, sl \in BOOLEAN}
    \cup
    {[family |-> "page", origin |-> o, first |-> f, id |-> i, extra |-> FALSE,
      slash |-> TRUE, fragment |-> Some(fr)] :
        o \in Origins, f \in {sView, sJournal, sUser}, i \in SampleIds,
        fr \in FragmentTexts}

SubmissionsInputs ==
    {[family |-> "submissions", origin |-> o, tok |-> t, cursor |-> c,
      n |-> n, slash |-> TRUE] :
        o \in Origins, t \in {sOld, sNew, <<"x">>, <<>>},
        c \in {None} \cup {Some(i) : i \in IdTexts},
        n \in {None} \cup {Some(z) : z \in PageSizes}}

FavInputs ==
    {[family |-> "fav", origin |-> o, mode |-> m, id |-> i, query |-> q] :
        o \in Origins, m \in {sFav, sUnfav}, i \in IdTexts, q \in Queries}

ReplytoInputs ==
    {[family |-> "replyto", origin |-> o, kind |-> k, id |-> i, slash |-> sl] :
        o \in Origins, k \in {sSubmission, sJournal, sUser}, i \in IdTexts,
        sl \in BOOLEAN}

ShortPaths ==
    {<<>>, <<sView>>, <<sJournal>>, <<sMsg>>, <<sMsg, sSubmissions>>,
     <<sMsg, sUser>>, <<sFav>>, <<sUnfav>>, <<sReplyto>>,
     <<sReplyto, sSubmission>>, <<sReplyto, sJournal>>}

ShortInputs ==
    {[family |-> "short", origin |-> o, segs |-> p, slash |-> sl] :
        o \in Origins \cup {""}, p \in ShortPaths, sl \in BOOLEAN}

Inputs ==
    PageInputs \cup SubmissionsInputs \cup FavInputs \cup ReplytoInputs
    \cup ShortInputs

RECURSIVE JoinPath(_)
JoinPath(segs) ==
    IF segs = <<>> THEN <<>> ELSE <<"/">> \o Head(segs) \o JoinPath(Tail(segs))

Slash(b) == IF b THEN <<"/">> ELSE <<>>

RECURSIVE QueryText(_)
QueryText(q) ==
    IF q = <<>> THEN <<>>
    ELSE LET pair == Head(q)
             one == pair[1] \o (IF pair[2] = None THEN <<>>
                                ELSE <<"=">> \o Unwrap(pair[2]))
         IN  IF Len(q) = 1 THEN one ELSE one \o <<"&">> \o QueryText(Tail(q))

OriginOf(o) == IF o = "" THEN <<>> ELSE <<o>>

\* the URL text written from the parts
TextOf(in) ==
    CASE in.family = "page" ->
            <<in.origin>>
            \o JoinPath(<<in.first, in.id>>
                        \o (IF in.extra THEN << <<"x">> >> ELSE <<>>))
            \o Slash(in.slash)
            \o (IF in.fragment = None THEN <<>>
                ELSE <<"#">> \o Unwrap(in.fragment))
      [] in.family = "submissions" ->
            <<in.origin>>
            \o JoinPath(<<sMsg, sSubmissions,
                          in.tok
                          \o (IF in.cursor = None THEN <<>>
                              ELSE <<"~">> \o Unwrap(in.cursor))
                          \o (IF in.n = None THEN <<>>
                              ELSE <<"@">> \o Unwrap(in.n))>>)
            \o Slash(in.slash)
      [] in.family = "fav" ->
            <<in.origin>> \o JoinPath(<<in.mode, in.id>>) \o <<"/">>
            \o (IF in.query = <<>> THEN <<>>
                ELSE <<"?">> \o QueryText(in.query))
      [] in.family = "replyto" ->
            <<in.origin>> \o JoinPath(<<sReplyto, in.kind, in.id>>)
            \o Slash(in.slash)
      [] in.family = "short" ->
            OriginOf(in.origin) \o JoinPath(in.segs) \o Slash(in.slash)

-----------------------------------------------------------------------------
(* The codec as a state machine: a text is parsed to a Url, a key is made  *)
(* from the Url, a Url is made from the key, and a key is made again from  *)
(* that Url.                                                               *)

HtmlIdle ==
    /\ doc = <<>>
    /\ edge = None
    /\ output = <<>>
    /\ done = FALSE

\* no Client is in use
ClientIdle ==
    /\ client = <<>>
    /\ lock = <<>>

ExtractIdle ==
    /\ page = <<>>
    /\ pc = "idle"
    /\ fields = <<>>
    /\ result = None

InitKeys ==
    /\ input \in Inputs
    /\ text = TextOf(input)
    /\ url = None
    /\ keyType = "none"
    /\ key = None
    /\ favMode = None
    /\ text2 = <<>>
    /\ url2 = None
    /\ key2 = None
    /\ stage = "text"
    /\ HtmlIdle
    /\ ExtractIdle
    /\ ClientIdle

\* Url::parse(txt), by the caller or by a TryFrom<&str>
ParseUrl ==
    /\ stage = "text"
    /\ url' = Some(UrlParse(text))
    /\ stage' = IF UrlParse(text).ok THEN "url" ELSE "malformed"
    /\ UNCHANGED <<input, text, keyType, key, favMode, text2, url2, key2>>
    /\ UNCHANGED htmlVars
    /\ UNCHANGED extractVars
    /\ UNCHANGED clientVars

TryFromAs(t) ==
    /\ stage = "url"
    /\ keyType' = t
    /\ key' = Some(TryFromUrl(t, Unwrap(url).val))
    /\ stage' = "parsed"
    /\ UNCHANGED <<input, text, url, favMode, text2, url2, key2>>
    /\ UNCHANGED htmlVars
    /\ UNCHANGED extractVars
    /\ UNCHANGED clientVars

ViewKeyFromUrl == TryFromAs("ViewKey")
JournalKeyFromUrl == TryFromAs("JournalKey")
SubmissionsKeyFromUrl == TryFromAs("SubmissionsKey")
FavKeyFromUrl == TryFromAs("FavKey")
CommentReplyKeyFromUrl == TryFromAs("CommentReplyKey")

\* Url::from(key), for the key types that have it
UrlFromKeyStep ==
    /\ stage = "parsed"
    /\ Unwrap(key).ok
    /\ keyType # "FavKey"
    /\ text2' = UrlTextOfKey(Unwrap(key).val)
    /\ url2' = Some(UrlFromKey(Unwrap(key).val))
    /\ stage' = "formatted"
    /\ UNCHANGED <<input, text, url, keyType, key, favMode, key2>>
    /\ UNCHANGED htmlVars
    /\ UNCHANGED extractVars
    /\ UNCHANGED clientVars

\* Client::maybe_fav(key, fav): the suffix, and the Url requested
FavSuffixStep ==
    /\ stage = "parsed"
    /\ Unwrap(key).ok
    /\ keyType = "FavKey"
    /\ \E fav \in BOOLEAN :
        /\ favMode' = Some(fav)
        /\ text2' = FavKeySuffix(Unwrap(key).val, fav)
        /\ url2' = Some(UrlFromFavKey(Unwrap(key).val, fav))
    /\ stage' = "formatted"
    /\ UNCHANGED <<input, text, url, keyType, key, key2>>
    /\ UNCHANGED htmlVars
    /\ UNCHANGED extractVars
    /\ UNCHANGED clientVars

\* the key made from the Url that was made from the key
Reparse ==
    /\ stage = "formatted"
    /\ key2' = Some(TryFromUrl(keyType, Unwrap(url2)))
    /\ stage' = "reparsed"
    /\ UNCHANGED <<input, text, url, keyType, key, favMode, text2, url2>>
    /\ UNCHANGED htmlVars
    /\ UNCHANGED extractVars
    /\ UNCHANGED clientVars

NextKeys ==
    \/ ParseUrl
    \/ ViewKeyFromUrl
    \/ JournalKeyFromUrl
    \/ SubmissionsKeyFromUrl
    \/ FavKeyFromUrl
    \/ CommentReplyKeyFromUrl
    \/ UrlFromKeyStep
    \/ FavSuffixStep
    \/ Reparse

SpecKeys == InitKeys /\ [][NextKeys]_vars

-----------------------------------------------------------------------------
(* The markup simplifier (src/src/html.rs).                                *)
(*                                                                         *)
(* A document is a sequence of nodes in document order; node i holds its   *)
(* parent's index (0 for the root, node 1) and its value.  An output       *)
(* string is a sequence of pieces: the fixed texts the program pushes, the *)
(* entities encode_minimal writes, and single characters of content.       *)

\* the base URL of the tests, https://www.furaffinity.net/view/1/
RootUrl == <<Origin, "/">> \o sView \o <<"/", "1", "/">>

\* htmlescape::encode_minimal
EncodeChar(c) ==
    CASE c = "\"" -> "&quot;"
      [] c = "&" -> "&amp;"
      [] c = "'" -> "&#x27;"
      [] c = "<" -> "&lt;"
      [] c = ">" -> "&gt;"
      [] OTHER -> c

EncodeMinimal(t) == [i \in 1..Len(t) |-> EncodeChar(t[i])]

\* the url crate's percent-encoding of a reference's characters: the
\* quotation mark and the angle brackets are encoded in every component, the
\* ampersand and the apostrophe in none
RECURSIVE PercentEncode(_)
PercentEncode(t) ==
    IF t = <<>> THEN <<>>
    ELSE (CASE Head(t) = "\"" -> <<"%", "2", "2">>
            [] Head(t) = "<" -> <<"%", "3", "C">>
            [] Head(t) = ">" -> <<"%", "3", "E">>
            [] OTHER -> <<Head(t)>>)
         \o PercentEncode(Tail(t))

\* root.join(h).ok() followed by to_string(), for a reference h that is a
\* path, a query or a fragment, or "//" and a host and a path: Option<text>.
\* "//" followed by no host is refused (an empty host); "//" and a host
\* keeps the scheme of the base; a reference starting with "/" replaces the
\* path; another one is resolved against the directory of the base.
UrlJoinText(root, h) ==
    IF StartsWith(h, <<"/", "/">>)
    THEN IF Len(h) >= 3 /\ h[3] \in {CdnHost, AvatarHost}
         THEN Some(<<IF h[3] = CdnHost THEN CdnOrigin ELSE AvatarOrigin>>
                   \o (IF Len(h) = 3 THEN <<"/">>
                       ELSE PercentEncode(SubSeq(h, 4, Len(h)))))
         ELSE None
    ELSE IF StartsWith(h, <<"/">>) THEN Some(<<Head(root)>> \o PercentEncode(h))
    ELSE Some(root \o PercentEncode(h))

\* Element::attr
Attr(elem, name) == IF name \in DOMAIN elem.attrs THEN Some(elem.attrs[name])
                    ELSE None

\* Element::has_class
HasClass(elem, class) == class \in elem.classes

\* bbcode_img
BbcodeImg(root, elem) ==
    LET src == IF Attr(elem, "src") = None THEN None
               ELSE UrlJoinText(root, Unwrap(Attr(elem, "src")))
    IN  IF src = None THEN <<>>
        ELSE <<"<img width=\"50\" height=\"50\" align=\"middle\" src=\"">>
             \o EncodeMinimal(Unwrap(src)) \o <<"\">">>

\* bbcode_open_a
BbcodeOpenA(root, elem) ==
    LET href == IF Attr(elem, "href") = None THEN None
                ELSE UrlJoinText(root, Unwrap(Attr(elem, "href")))
    IN  IF href = None THEN <<"<a>">>
        ELSE <<"<a href=\"">> \o EncodeMinimal(Unwrap(href)) \o <<"\">">>

\* BBCODE_CLASSES: class, open tag, Option<close tag>
BBCODE_CLASSES ==
    << <<"bbcode_hr", "<hr>", None>>,
       <<"bbcode_b", "<strong>", Some("</strong>")>>,
       <<"bbcode_i", "<em>", Some("</em>")>>,
       <<"bbcode_u", "<u>", Some("</u>")>>,
       <<"bbcode_s", "<s>", Some("</s>")>>,
       <<"bbcode_left", "<div align=\"left\">", Some("</div>")>>,
       <<"bbcode_center", "<div align=\"center\">", Some("</div>")>>,
       <<"bbcode_right", "<div align=\"right\">", Some("</div>")>>,
       <<"bbcode_quote", "<blockquote class=\"quote\">",
         Some("</blockquote>")>>,
       <<"bbcode_quote_name", "<strong class=\"quote-name\">",
         Some("</strong>")>> >>

\* the index of the last entry of BBCODE_CLASSES whose class the element
\* has, or 0
LastClassEntry(elem) ==
    IF \E i \in 1..Len(BBCODE_CLASSES) : HasClass(elem, BBCODE_CLASSES[i][1])
    THEN CHOOSE i \in 1..Len(BBCODE_CLASSES) :
            /\ HasClass(elem, BBCODE_CLASSES[i][1])
            /\ \A j \in (i + 1)..Len(BBCODE_CLASSES) :
                   ~HasClass(elem, BBCODE_CLASSES[j][1])
    ELSE 0

\* the index of the first entry of BBCODE_CLASSES whose class the element
\* has, or 0: the loop of bbcode_open and of bbcode_close
FirstClassEntry(elem) ==
    IF \E i \in 1..Len(BBCODE_CLASSES) : HasClass(elem, BBCODE_CLASSES[i][1])
    THEN CHOOSE i \in 1..Len(BBCODE_CLASSES) :
            /\ HasClass(elem, BBCODE_CLASSES[i][1])
            /\ \A j \in 1..(i - 1) : ~HasClass(elem, BBCODE_CLASSES[j][1])
    ELSE 0

sColorPrefix == <<"c", "o", "l", "o", "r", ":", " ">>

\* bbcode_span_color: Option<text>
BbcodeSpanColor(elem) ==
    LET style == Attr(elem, "style")
    IN  IF style = None THEN None
        ELSE IF ~StartsWith(Unwrap(style), sColorPrefix) THEN None
        ELSE IF ~EndsWith(Unwrap(style), <<";">>) THEN None
        ELSE Some(SubSeq(Unwrap(style), 8, Len(Unwrap(style)) - 1))

\* bbcode_close
BbcodeClose(elem) ==
    LET i == FirstClassEntry(elem)
    IN  IF i # 0
        THEN (IF BBCODE_CLASSES[i][3] = None THEN <<>>
              ELSE <<Unwrap(BBCODE_CLASSES[i][3])>>)
        ELSE IF elem.name \in {"div", "span"} /\ BbcodeSpanColor(elem) # None
        THEN <<"</font>">>
        ELSE <<>>

\* bbcode_open
BbcodeOpen(elem) ==
    LET i == FirstClassEntry(elem)
    IN  IF i # 0 THEN <<BBCODE_CLASSES[i][2]>>
        ELSE IF elem.name \in {"div", "span"} /\ BbcodeSpanColor(elem) # None
        THEN <<"<font color=\"">>
             \o EncodeMinimal(Unwrap(BbcodeSpanColor(elem))) \o <<"\">">>
        ELSE <<>>

ClassDrivenTags ==
    {"strong", "b", "em", "i", "u", "s", "code", "hr", "span", "div"}

\* simplify_open_text without the call of encode_minimal
SimplifyOpenText_Raw(txt) == txt.text

\* simplify_open_text
SimplifyOpenText(txt) == EncodeMinimal(txt.text)

\* simplify_open_element
SimplifyOpenElement(root, elem) ==
    IF elem.name \in ClassDrivenTags THEN BbcodeOpen(elem)
    ELSE IF elem.name = "br" THEN <<"<br>">>
    ELSE IF elem.name = "a" THEN BbcodeOpenA(root, elem)
    ELSE IF elem.name = "img" THEN BbcodeImg(root, elem)
    ELSE <<>>

\* simplify_open: what the node's open edge appends to the output
SimplifyOpen(root, node) ==
    IF node.kind = "Text" THEN SimplifyOpenText(node)
    ELSE IF node.kind = "Element" THEN SimplifyOpenElement(root, node)
    ELSE <<>>

\* simplify_close: what the node's close edge appends to the output
SimplifyClose(node) ==
    IF node.kind # "Element" THEN <<>>
    ELSE IF node.name \in ClassDrivenTags THEN BbcodeClose(node)
    ELSE IF node.name = "a" THEN <<"</a>">>
    ELSE <<>>

-----------------------------------------------------------------------------
(* ego_tree's traversal, as simplify uses it.                              *)

Children(d, n) == {i \in 1..Len(d) : d[i].parent = n}

\* NodeRef::first_child
FirstChild(d, n) ==
    IF Children(d, n) = {} THEN None
    ELSE Some(CHOOSE i \in Children(d, n) : \A j \in Children(d, n) : i <= j)

\* NodeRef::next_sibling
NextSibling(d, n) ==
    LET later == {i \in Children(d, d[n].parent) : i > n}
    IN  IF later = {} THEN None
        ELSE Some(CHOOSE i \in later : \A j \in later : i <= j)

OpenEdge(n) == [kind |-> "Open", node |-> n]
CloseEdge(n) == [kind |-> "Close", node |-> n]

\* Traverse::next from the edge e (Some) of the traversal rooted at node 1:
\* after Open(n) the first child's Open or Close(n); after Close(n) the next
\* sibling's Open or the parent's Close; after Close(root) the end
TraverseNext(d, e) ==
    LET n == Unwrap(e).node
    IN  IF Unwrap(e).kind = "Open"
        THEN IF FirstChild(d, n) # None
             THEN Some(OpenEdge(Unwrap(FirstChild(d, n))))
             ELSE Some(CloseEdge(n))
        ELSE IF n = 1 THEN None
        ELSE IF NextSibling(d, n) # None
             THEN Some(OpenEdge(Unwrap(NextSibling(d, n))))
        ELSE Some(CloseEdge(d[n].parent))

-----------------------------------------------------------------------------
(* The documents simplify is run on.                                       *)

\* the most nodes of a document
MaxNodes == 3

Element(name, classes, attrs) ==
    [kind |-> "Element", name |-> name, classes |-> classes, attrs |-> attrs]

NoAttrs == [x \in {} |-> <<>>]

sColorRed == sColorPrefix \o <<"r", ";">>
sColorQuote == sColorPrefix \o <<"\"", ";">>
sColorOpen == sColorPrefix \o <<"r">>

\* elements that hold children
ContainerNodes ==
    { Element("div", {}, NoAttrs),
      Element("p", {}, NoAttrs),
      Element("span", {"bbcode", "bbcode_b"}, NoAttrs),
      Element("span", {"bbcode", "bbcode_quote", "bbcode_quote_name"},
              [style |-> sColorRed]),
      Element("span", {"bbcode"}, [style |-> sColorQuote]),
      Element("span", {"bbcode"}, [style |-> sColorOpen]),
      Element("b", {"bbcode"}, [style |-> sColorRed]),
      Element("a", {}, [href |-> <<"/", "v", "\"", "&">>]),
      Element("a", {}, [href |-> <<"/", "/">>]) }

\* nodes that hold none: text, a comment, void elements
LeafNodes ==
    { [kind |-> "Text", text |-> <<"t", "<", ">", "&", "\"">>],
      [kind |-> "Comment"],
      Element("hr", {"bbcode", "bbcode_hr"}, NoAttrs),
      Element("br", {}, NoAttrs),
      Element("img", {}, [src |-> <<"i", "<", "&">>]) }

NodeValues == ContainerNodes \cup LeafNodes

\* the parent of each node, nodes numbered in document order: the parent of
\* node i + 1 is node i or one of its ancestors
RECURSIVE Ancestors(_, _)
Ancestors(par, i) ==
    IF i = 0 THEN {} ELSE {i} \cup Ancestors(par, par[i])

ParentMaps(n) ==
    {par \in [1..n -> 0..(n - 1)] :
        /\ par[1] = 0
        /\ \A i \in 2..n : par[i] \in Ancestors(par, i - 1)}

\* the document of n nodes with the parents par and the values val
DocOf(n, par, val) == [i \in 1..n |-> [parent |-> par[i], node |-> val[i]]]

HasChildren(d, i) == \E j \in 1..Len(d) : d[j].parent = i

\* the documents an HTML parser builds, seen from an element: the root is an
\* element, and only elements that hold children have any
WellFormed(d) ==
    /\ d[1].node \in ContainerNodes
    /\ \A i \in 1..Len(d) : HasChildren(d, i) => d[i].node \in ContainerNodes

-----------------------------------------------------------------------------
(* simplify as a state machine: one step per edge of the traversal.        *)

KeysIdle ==
    /\ input = <<>>
    /\ text = <<>>
    /\ url = None
    /\ keyType = "none"
    /\ key = None
    /\ favMode = None
    /\ text2 = <<>>
    /\ url2 = None
    /\ key2 = None
    /\ stage = "idle"

\* simplify(root, elem): the traversal starts at the element, whose open edge
\* skip(1) drops
InitHtml ==
    /\ \E n \in 1..MaxNodes :
        \E par \in ParentMaps(n) :
            \E val \in [1..n -> NodeValues] :
                /\ doc = DocOf(n, par, val)
                /\ WellFormed(doc)
    /\ edge = Some(OpenEdge(1))
    /\ output = <<>>
    /\ done = FALSE
    /\ KeysIdle
    /\ ExtractIdle
    /\ ClientIdle

\* Edge::Open(node) => simplify_open(root, &mut output, node)
SimplifyOpenStep ==
    /\ ~done
    /\ TraverseNext(doc, edge) # None
    /\ Unwrap(TraverseNext(doc, edge)).kind = "Open"
    /\ edge' = TraverseNext(doc, edge)
    /\ output' = output \o SimplifyOpen(RootUrl, doc[Unwrap(edge').node].node)
    /\ UNCHANGED <<doc, done>>
    /\ UNCHANGED keyVars
    /\ UNCHANGED extractVars
    /\ UNCHANGED clientVars

\* Edge::Close(node) => simplify_close(&mut output, node)
SimplifyCloseStep ==
    /\ ~done
    /\ TraverseNext(doc, edge) # None
    /\ Unwrap(TraverseNext(doc, edge)).kind = "Close"
    /\ edge' = TraverseNext(doc, edge)
    /\ output' = output \o SimplifyClose(doc[Unwrap(edge').node].node)
    /\ UNCHANGED <<doc, done>>
    /\ UNCHANGED keyVars
    /\ UNCHANGED extractVars
    /\ UNCHANGED clientVars

\* the traversal has ended: simplify returns output
SimplifyReturn ==
    /\ ~done
    /\ TraverseNext(doc, edge) = None
    /\ done' = TRUE
    /\ UNCHANGED <<doc, edge, output>>
    /\ UNCHANGED keyVars
    /\ UNCHANGED extractVars
    /\ UNCHANGED clientVars

NextHtml ==
    \/ SimplifyOpenStep
    \/ SimplifyCloseStep
    \/ SimplifyReturn

SpecHtml == InitHtml /\ [][NextHtml]_vars

-----------------------------------------------------------------------------
(* The resource extraction engine (src/src/resources.rs and                *)
(* src/src/resources/).                                                    *)
(*                                                                         *)
(* The CSS selector engine is a capability of the scraper crate.  An       *)
(* element or document is a record that holds, for each selector the       *)
(* program queries it with, the candidate elements in document order; a    *)
(* selector's attribute tests ([href^='/fav/'], [id^='cid:']) are applied  *)
(* to the candidates by the model.  A panic is carried as the Result       *)
(* Panicked: it unwinds through every caller, as an Err does through `?`,  *)
(* but it is no ParseError.                                                *)

\* u8::MAX
U8Max == 255

\* the longest width text of a style attribute
MaxWidthLen == 4

Panicked == Err("panic")

\* the two builds: with overflow checks (debug) and without (release)
Builds == {"debug", "release"}

\* the value of a text of digits, saturating above max
RECURSIVE DigitsValueTo(_, _, _)
DigitsValueTo(s, acc, max) ==
    IF s = <<>> THEN acc
    ELSE LET v == acc * 10 + DigitValue(Head(s))
         IN  IF v > max THEN max + 1 ELSE DigitsValueTo(Tail(s), v, max)

\* <u8 as FromStr>::from_str: an optional "+", then one or more digits, no
\* overflow; every failure is a ParseIntError
ParseU8(s) ==
    LET body == IF s # <<>> /\ Head(s) = "+" THEN Tail(s) ELSE s
    IN  IF body = <<>> THEN Err("ParseIntError")
        ELSE IF \E i \in 1..Len(body) : ~IsDigit(body[i])
             THEN Err("ParseIntError")
        ELSE IF DigitsValueTo(body, 0, U8Max) > U8Max
             THEN Err("ParseIntError")
        ELSE Ok(DigitsValueTo(body, 0, U8Max))

\* the `?` of a Result<_, ParseIntError> in a function returning ParseError:
\* ParseError::InvalidInteger { source }
InvalidInteger(r) == IF r.ok THEN r ELSE Err("InvalidInteger")

\* str::trim: without the leading and the trailing spaces
RECURSIVE TrimStart(_)
TrimStart(s) ==
    IF s # <<>> /\ Head(s) = " " THEN TrimStart(Tail(s)) ELSE s

RECURSIVE TrimEnd(_)
TrimEnd(s) ==
    IF s # <<>> /\ s[Len(s)] = " " THEN TrimEnd(SubSeq(s, 1, Len(s) - 1))
    ELSE s

Trim(s) == TrimEnd(TrimStart(s))

\* [&str]::join(" ")
RECURSIVE JoinSpace(_)
JoinSpace(items) ==
    IF items = <<>> THEN <<>>
    ELSE IF Len(items) = 1 THEN items[1]
    ELSE items[1] \o <<" ">> \o JoinSpace(Tail(items))

\* an element with the text nodes below it, in document order
TextElement(name, classes, attrs, texts) ==
    [kind |-> "Element", name |-> name, classes |-> classes, attrs |-> attrs,
     texts |-> texts]

\* resources::text: every text node trimmed, joined with one space
ResourcesText(elem) ==
    JoinSpace([i \in 1..Len(elem.texts) |-> Trim(elem.texts[i])])

\* resources::number
ResourcesNumber(elem) == InvalidInteger(ParseU64(ResourcesText(elem)))

\* resources::attr
ResourcesAttr(elem, attribute) ==
    IF Attr(elem, attribute) = None THEN Err("MissingAttribute")
    ELSE Ok(Unwrap(Attr(elem, attribute)))

\* resources::select_first and resources::select_first_elem, given the
\* elements the selector matches, in document order
SelectFirst(matches) ==
    IF matches = <<>> THEN Err("MissingElement") ELSE Ok(matches[1])

\* the candidates whose attribute starts with the prefix: [attribute^='...']
AttrStartsWith(candidates, attribute, prefix) ==
    SelectSeq(candidates,
              LAMBDA e : /\ Attr(e, attribute) # None
                         /\ StartsWith(Unwrap(Attr(e, attribute)), prefix))

\* the one date text of the model that chrono parses with the format
\* "%b %e, %Y %I:%M %p", and the date it is
sDate == <<"Sep 23, 2020 03:59 PM">>
TheDate == [year |-> 2020, month |-> 9, day |-> 23, hour |-> 15, minute |-> 59]

\* NaiveDateTime::parse_from_str(txt, "%b %e, %Y %I:%M %p")
ParseDate(txt) == IF txt = sDate THEN Ok(TheDate) ELSE Err("InvalidDate")

\* resources::datetime: the title attribute, or the text where there is none;
\* where that does not parse, the text
ResourcesDatetime(elem) ==
    LET txt == IF ResourcesAttr(elem, "title").ok
               THEN ResourcesAttr(elem, "title").val
               ELSE ResourcesText(elem)
    IN  IF ParseDate(txt).ok THEN ParseDate(txt)
        ELSE ParseDate(ResourcesText(elem))

\* url.join(reference) of a Url, as a Result<text, ParseError>
UrlJoin(base, reference) ==
    IF UrlJoinText(base, reference) = None THEN Err("MalformedUrl")
    ELSE Ok(Unwrap(UrlJoinText(base, reference)))

-----------------------------------------------------------------------------
(* simplify and inner_html as functions of a subtree.                      *)

\* the loop of simplify from the edge e on, appending to out
RECURSIVE SimplifyFrom(_, _, _, _)
SimplifyFrom(root, d, e, out) ==
    LET nx == TraverseNext(d, e)
    IN  IF nx = None THEN out
        ELSE IF Unwrap(nx).kind = "Open"
        THEN SimplifyFrom(root, d, nx,
                          out \o SimplifyOpen(root, d[Unwrap(nx).node].node))
        ELSE SimplifyFrom(root, d, nx,
                          out \o SimplifyClose(d[Unwrap(nx).node].node))

\* simplify(root, elem): the traversal of the subtree without its first edge
Simplify(root, d) == SimplifyFrom(root, d, Some(OpenEdge(1)), <<>>)

\* the HTML serializer's escaping of a text node: "&", "<" and ">"
RECURSIVE EscapeText(_)
EscapeText(t) ==
    IF t = <<>> THEN <<>>
    ELSE (CASE Head(t) = "&" -> <<"&", "a", "m", "p", ";">>
            [] Head(t) = "<" -> <<"&", "l", "t", ";">>
            [] Head(t) = ">" -> <<"&", "g", "t", ";">>
            [] OTHER -> <<Head(t)>>)
         \o EscapeText(Tail(t))

\* the serialization of node n of d and of what is below it; the elements of
\* the model's comment bodies carry no attributes
RECURSIVE SerializeNode(_, _)
RECURSIVE SerializeChildren(_, _, _)
SerializeNode(d, n) ==
    IF d[n].node.kind = "Text" THEN EscapeText(d[n].node.text)
    ELSE IF d[n].node.kind = "Comment" THEN <<"<!---->">>
    ELSE IF d[n].node.name \in {"br", "hr", "img"}
    THEN <<"<", d[n].node.name, ">">>
    ELSE <<"<", d[n].node.name, ">">>
         \o SerializeChildren(d, n, FirstChild(d, n))
         \o <<"</", d[n].node.name, ">">>

SerializeChildren(d, n, c) ==
    IF c = None THEN <<>>
    ELSE SerializeNode(d, Unwrap(c))
         \o SerializeChildren(d, n, NextSibling(d, Unwrap(c)))

\* ElementRef::inner_html
InnerHtml(d) == SerializeChildren(d, 1, FirstChild(d, 1))

-----------------------------------------------------------------------------
(* The comment decoder (src/src/resources/comment.rs, and its copy in      *)
(* src/src/resources/view.rs).                                             *)
(*                                                                         *)
(* A comment element holds its attributes and, for each selector of the    *)
(* decoder, the candidates below it: anchors (a.comment_anchor), bodies    *)
(* (.comment_text, each a subtree), parents (a.comment-parent), dates      *)
(* (.comment-date .popup_date), avatars (img.comment_useravatar) and names *)
(* (.comment_username h3).                                                 *)

sWidth == <<"w", "i", "d", "t", "h", ":">>
sHashCid == <<"#">> \o sCid

\* a - b of two u8 values: with overflow checks a panic, without them the
\* difference modulo 2^8
U8Sub(build, a, b) ==
    IF a >= b THEN Ok(a - b)
    ELSE IF build = "debug" THEN Panicked
    ELSE Ok((a - b + U8Max + 1) % (U8Max + 1))

\* CommentContainer::extract_width without the upper bound of the length
CommentContainerExtractWidth_NoUpperLen(elem) ==
    LET style == ResourcesAttr(elem, "style")
    IN  IF ~style.ok THEN style
        ELSE IF ~StartsWith(style.val, sWidth) THEN Err("InvalidDepth")
        ELSE IF ~EndsWith(style.val, <<"%">>) THEN Err("InvalidDepth")
        ELSE IF ~(Len(style.val) >= 8) THEN Err("InvalidDepth")
        ELSE InvalidInteger(
                 ParseU8(SubSeq(style.val, 7, Len(style.val) - 1)))

\* CommentContainer::extract_width
CommentContainerExtractWidth(elem) ==
    LET style == ResourcesAttr(elem, "style")
    IN  IF ~style.ok THEN style
        ELSE IF ~StartsWith(style.val, sWidth) THEN Err("InvalidDepth")
        ELSE IF ~EndsWith(style.val, <<"%">>) THEN Err("InvalidDepth")
        ELSE IF ~(Len(style.val) >= 8) THEN Err("InvalidDepth")
        ELSE IF ~(Len(style.val) <= 10) THEN Err("InvalidDepth")
        ELSE InvalidInteger(
                 ParseU8(SubSeq(style.val, 7, Len(style.val) - 1)))

\* View::extract_width
ViewExtractWidth(elem) ==
    LET style == ResourcesAttr(elem, "style")
    IN  IF ~style.ok THEN style
        ELSE IF ~StartsWith(style.val, sWidth) THEN Err("InvalidDepth")
        ELSE IF ~EndsWith(style.val, <<"%">>) THEN Err("InvalidDepth")
        ELSE IF ~(Len(style.val) >= 8) THEN Err("InvalidDepth")
        ELSE IF ~(Len(style.val) <= 10) THEN Err("InvalidDepth")
        ELSE InvalidInteger(
                 ParseU8(SubSeq(style.val, 7, Len(style.val) - 1)))

\* the id of the first a.comment_anchor[id^='cid:']: the text after "cid:"
CommentId(elem) ==
    LET id_elem == SelectFirst(AttrStartsWith(elem.anchors, "id", sCid))
    IN  IF ~id_elem.ok THEN id_elem
        ELSE InvalidInteger(
                 ParseU64(SubSeq(Unwrap(Attr(id_elem.val, "id")), 5,
                                 Len(Unwrap(Attr(id_elem.val, "id"))))))

\* the parent id where an anchor that cannot be read counts as no anchor
CommentParentId_Lenient(elem) ==
    LET parent_res == SelectFirst(elem.parents)
    IN  IF ~parent_res.ok THEN Ok(None)
        ELSE LET href == ResourcesAttr(parent_res.val, "href")
             IN  IF ~href.ok THEN Ok(None)
                 ELSE IF ~StartsWith(href.val, sHashCid) THEN Ok(None)
                 ELSE LET id == InvalidInteger(
                                    ParseU64(SubSeq(href.val, 6,
                                                    Len(href.val))))
                      IN  IF ~id.ok THEN Ok(None) ELSE Ok(Some(id.val))

\* the parent id: Result<Option<u64>, ParseError>
CommentParentId(elem) ==
    LET parent_res == SelectFirst(elem.parents)
    IN  IF ~parent_res.ok THEN Ok(None)
        ELSE LET href == ResourcesAttr(parent_res.val, "href")
             IN  IF ~href.ok THEN href
                 ELSE IF ~StartsWith(href.val, sHashCid)
                 THEN Err("MissingAttribute")
                 ELSE LET id == InvalidInteger(
                                    ParseU64(SubSeq(href.val, 6,
                                                    Len(href.val))))
                      IN  IF ~id.ok THEN id ELSE Ok(Some(id.val))

\* the commenter: Result<MiniUser, ParseError>
CommentCommenter(base, elem) ==
    LET avatar_elem == SelectFirst(elem.avatars)
    IN  IF ~avatar_elem.ok THEN avatar_elem
        ELSE IF ~ResourcesAttr(avatar_elem.val, "src").ok
        THEN ResourcesAttr(avatar_elem.val, "src")
        ELSE IF ~UrlJoin(base, ResourcesAttr(avatar_elem.val, "src").val).ok
        THEN UrlJoin(base, ResourcesAttr(avatar_elem.val, "src").val)
        ELSE IF ~ResourcesAttr(avatar_elem.val, "alt").ok
        THEN ResourcesAttr(avatar_elem.val, "alt")
        ELSE IF ~SelectFirst(elem.names).ok THEN SelectFirst(elem.names)
        ELSE Ok([avatar |-> UrlJoin(base, ResourcesAttr(avatar_elem.val,
                                                       "src").val).val,
                 slug |-> ResourcesAttr(avatar_elem.val, "alt").val,
                 name |-> ResourcesText(SelectFirst(elem.names).val)])

\* the Comment of a comment element with the text txt
CommentOf(base, elem, txt) ==
    LET parent_id == CommentParentId(elem)
        posted_elem == SelectFirst(elem.dates)
    IN  IF ~parent_id.ok THEN parent_id
        ELSE IF ~posted_elem.ok THEN posted_elem
        ELSE IF ~ResourcesDatetime(posted_elem.val).ok
        THEN ResourcesDatetime(posted_elem.val)
        ELSE IF ~CommentCommenter(base, elem).ok
        THEN CommentCommenter(base, elem)
        ELSE Ok([parent_id |-> parent_id.val,
                 text |-> txt,
                 posted |-> ResourcesDatetime(posted_elem.val).val,
                 commenter |-> CommentCommenter(base, elem).val])

\* the depth of a width taken as the width's third
Depth_WidthThird(build, width) == Ok(width \div 3)

\* let depth = (100 - width) / 3
Depth(build, width) ==
    LET rest == U8Sub(build, 100, width)
    IN  IF ~rest.ok THEN rest ELSE Ok(rest.val \div 3)

\* CommentContainer::extract
CommentContainerExtract(build, base, root, elem) ==
    LET width == CommentContainerExtractWidth(elem)
    IN  IF ~width.ok THEN width
        ELSE
        LET depth == Depth(build, width.val)
            comment_id == CommentId(elem)
            text_res == SelectFirst(elem.bodies)
        IN  IF ~depth.ok THEN depth
            ELSE IF ~comment_id.ok THEN comment_id
            ELSE IF ~text_res.ok
            THEN Ok([root |-> root, comment_id |-> comment_id.val,
                     depth |-> depth.val, comment |-> None])
            ELSE LET c == CommentOf(base, elem, Simplify(base, text_res.val))
                 IN  IF ~c.ok THEN c
                     ELSE Ok([root |-> root, comment_id |-> comment_id.val,
                              depth |-> depth.val,
                              comment |-> Some(c.val)])

\* View::extract_comment where a comment without a body is an error
ViewExtractComment_BodyMandatory(build, base, view_id, elem) ==
    LET width == ViewExtractWidth(elem)
    IN  IF ~width.ok THEN width
        ELSE
        LET depth == Depth(build, width.val)
            comment_id == CommentId(elem)
            text_res == SelectFirst(elem.bodies)
        IN  IF ~depth.ok THEN depth
            ELSE IF ~comment_id.ok THEN comment_id
            ELSE IF ~text_res.ok THEN text_res
            ELSE LET c == CommentOf(base, elem, Trim(InnerHtml(text_res.val)))
                 IN  IF ~c.ok THEN c
                     ELSE Ok([view_id |-> view_id,
                              comment_id |-> comment_id.val,
                              depth |-> depth.val,
                              comment |-> Some(c.val)])

\* View::extract_comment
ViewExtractComment(build, base, view_id, elem) ==
    LET width == ViewExtractWidth(elem)
    IN  IF ~width.ok THEN width
        ELSE
        LET depth == Depth(build, width.val)
            comment_id == CommentId(elem)
            text_res == SelectFirst(elem.bodies)
        IN  IF ~depth.ok THEN depth
            ELSE IF ~comment_id.ok THEN comment_id
            ELSE IF ~text_res.ok
            THEN Ok([view_id |-> view_id, comment_id |-> comment_id.val,
                     depth |-> depth.val, comment |-> None])
            ELSE LET c == CommentOf(base, elem, Trim(InnerHtml(text_res.val)))
                 IN  IF ~c.ok THEN c
                     ELSE Ok([view_id |-> view_id,
                              comment_id |-> comment_id.val,
                              depth |-> depth.val,
                              comment |-> Some(c.val)])

-----------------------------------------------------------------------------
(* The comment elements the decoder is run on.                             *)

\* the characters of a width text: digits and a letter
StyleAlphabet == {"0", "1", "7", "9", "x"}

WidthTexts == TextsOver(StyleAlphabet, MaxWidthLen)

\* a style attribute is written from the prefix or another text of its
\* length, a width text, and the suffix or none
StylePrefixes == {sWidth, <<"w", "i", "d", "t", "h", " ">>}
StyleSuffixes == {<<"%">>, <<>>}

\* no style, and styles with a sign in the width text
OtherStyles ==
    {None, Some(sWidth \o <<"+", "7", "%">>), Some(sWidth \o <<"+", "%">>),
     Some(sWidth \o <<"1", "+", "%">>)}

SampleStyles ==
    {Some(sWidth \o <<"9", "7", "%">>), Some(sWidth \o <<"1", "9", "0", "%">>)}

CommentElement(style, anchors, bodies, parents, dates, avatars, names) ==
    [attrs |-> IF style = None THEN NoAttrs ELSE [style |-> Unwrap(style)],
     anchors |-> anchors, bodies |-> bodies, parents |-> parents,
     dates |-> dates, avatars |-> avatars, names |-> names]

AnchorOf(id) == Element("a", {"comment_anchor"}, [id |-> id])
ParentOf(href) == Element("a", {"comment-parent"}, [href |-> href])

\* a body: the .comment_text element and the text node below it
BodyDoc ==
    <<[parent |-> 0, node |-> Element("div", {"comment_text"}, NoAttrs)],
      [parent |-> 1, node |-> [kind |-> "Text",
                               text |-> <<" ", "a", "<", "b", " ">>]]>>

GoodDate == TextElement("span", {"popup_date"}, [title |-> sDate], <<>>)
BadDate ==
    TextElement("span", {"popup_date"}, [title |-> <<"x">>], << <<"x">> >>)
GoodAvatar ==
    Element("img", {"comment_useravatar"},
            [src |-> <<"/", "a">>, alt |-> <<"u">>])
GoodName == TextElement("h3", {}, NoAttrs, << <<" ", "N", " ">> >>)

AnchorSamples ==
    {<<>>, <<AnchorOf(sCid \o <<"7">>)>>, <<AnchorOf(sCid \o <<"x">>)>>,
     <<AnchorOf(<<"c">>), AnchorOf(sCid \o <<"5">>)>>}
BodySamples == {<<>>, <<BodyDoc>>}
ParentSamples ==
    {<<>>,
     <<Element("a", {"comment-parent"}, NoAttrs)>>,
     <<ParentOf(sHashCid \o <<"5">>)>>,
     <<ParentOf(sHashCid \o <<"x">>)>>,
     <<ParentOf(sHashCid)>>,
     <<ParentOf(<<"/", "v">>)>>}
DateSamples == {<<>>, <<GoodDate>>, <<BadDate>>}
AvatarSamples ==
    {<<>>, <<GoodAvatar>>,
     <<Element("img", {"comment_useravatar"}, [alt |-> <<"u">>])>>,
     <<Element("img", {"comment_useravatar"}, [src |-> <<"/", "a">>])>>,
     <<Element("img", {"comment_useravatar"},
               [src |-> <<"/", "/">>, alt |-> <<"u">>])>>}
NameSamples == {<<>>, <<GoodName>>}

\* a comment as the site writes it, with the given style
WholeComment(style) ==
    CommentElement(style, <<AnchorOf(sCid \o <<"7">>)>>, <<BodyDoc>>,
                   <<ParentOf(sHashCid \o <<"5">>)>>, <<GoodDate>>,
                   <<GoodAvatar>>, <<GoodName>>)

\* the id of the page the comment is on
SamplePageId == 7

-----------------------------------------------------------------------------
(* The comment decoder as a state machine: the width is decoded, then the  *)
(* comment is extracted, by the decoder of the page type.                  *)

\* extract_width of the page type root
ExtractWidthOf(root, elem) ==
    IF root = "View" THEN ViewExtractWidth(elem)
    ELSE CommentContainerExtractWidth(elem)

\* View::extract_comment(url, view_id, elem) on a view page,
\* CommentContainer::extract(url, CommentRoot::Journal(journal_id), elem) on
\* a journal page
ExtractCommentOf(build, base, root, id, elem) ==
    IF root = "View" THEN ViewExtractComment(build, base, id, elem)
    ELSE CommentContainerExtract(build, base,
                                 [kind |-> "Journal", id |-> id], elem)

\* the decoder's arguments
CommentCall(b, r, e) ==
    [build |-> b, root |-> r, url |-> RootUrl, id |-> SamplePageId, elem |-> e]

\* every style on a whole comment, and every structure under a sample style
InitComment ==
    /\ \E b \in Builds, r \in {"View", "Journal"} :
        \/ \E p \in StylePrefixes, w \in WidthTexts, s \in StyleSuffixes :
              page = CommentCall(b, r, WholeComment(Some(p \o w \o s)))
        \/ \E s \in OtherStyles :
              page = CommentCall(b, r, WholeComment(s))
        \/ \E s \in SampleStyles, a \in AnchorSamples, c \in BodySamples,
               p \in ParentSamples, d \in DateSamples, v \in AvatarSamples,
               n \in NameSamples :
              page = CommentCall(b, r, CommentElement(s, a, c, p, d, v, n))
    /\ pc = "start"
    /\ fields = <<>>
    /\ result = None
    /\ KeysIdle
    /\ HtmlIdle
    /\ ClientIdle

ExtractWidthStep ==
    /\ pc = "start"
    /\ fields' = [width |-> ExtractWidthOf(page.root, page.elem)]
    /\ pc' = "width"
    /\ UNCHANGED <<page, result>>
    /\ UNCHANGED keyVars
    /\ UNCHANGED htmlVars
    /\ UNCHANGED clientVars

ExtractCommentStep ==
    /\ pc = "width"
    /\ result' = Some(ExtractCommentOf(page.build, page.url, page.root,
                                       page.id, page.elem))
    /\ pc' = "extracted"
    /\ UNCHANGED <<page, fields>>
    /\ UNCHANGED keyVars
    /\ UNCHANGED htmlVars
    /\ UNCHANGED clientVars

NextComment ==
    \/ ExtractWidthStep
    \/ ExtractCommentStep

SpecComment == InitComment /\ [][NextComment]_vars

-----------------------------------------------------------------------------
(* The submission view page (src/src/resources/view.rs).                   *)
(*                                                                         *)
(* A view document holds, for each selector of View::from_html, the        *)
(* candidates it matches: subimg (img#submissionImg), mature               *)
(* (#pageid-matureimage-error), flash (object#flash_embed), kind           *)
(* (#submission_page), download (.download a), category, type_, views,     *)
(* n_comments, favorites, rating, posted, title, description (a subtree),  *)
(* avatar, artists (.submission-id-sub-container > a), tags, comments      *)
(* (#comments-submission .comment_container) and favnav (.favorite-nav a). *)

sUserPrefix == <<"/">> \o sUser \o <<"/">>
sFavPrefix == <<"/">> \o sFav \o <<"/">>
sUnfavPrefix == <<"/">> \o sUnfav \o <<"/">>

\* the index of the last piece of s equal to c, or 0
RECURSIVE LastIndexOf(_, _)
LastIndexOf(s, c) ==
    IF s = <<>> THEN 0
    ELSE IF s[Len(s)] = c THEN Len(s)
    ELSE LastIndexOf(SubSeq(s, 1, Len(s) - 1), c)

\* str::contains of a class attribute, whose pieces are class names
Contains(s, piece) == \E i \in 1..Len(s) : s[i] = piece

\* the path segments of a Url given as the text it is written as
TextPathSegments(t) == PathSegments(UrlParse(t).val)

\* Submission::parse_url: the directory of the URL and the integer between
\* the first "-" and the next "." of its last path segment
SubmissionParseUrl(t) ==
    LET u == UrlParse(t).val
        root == <<u.origin>> \o SubSeq(u.path, 1, LastIndexOf(u.path, "/"))
        segs == PathSegments(u)
        last == segs[Len(segs)]
        after_sz == IF IndexOf(last, "-") = 0 THEN last
                    ELSE SubSeq(last, IndexOf(last, "-") + 1, Len(last))
        before_ext == IF IndexOf(after_sz, ".") = 0 THEN after_sz
                      ELSE SubSeq(after_sz, 1, IndexOf(after_sz, ".") - 1)
        created == InvalidInteger(ParseU64(before_ext))
    IN  IF ~created.ok THEN created
        ELSE Ok([cdn |-> root, created |-> created.val])

\* View::extract_urls
ViewExtractUrls(base, subimg) ==
    LET fullview_txt == ResourcesAttr(subimg, "data-fullview-src")
        preview_txt == ResourcesAttr(subimg, "data-preview-src")
    IN  IF ~fullview_txt.ok THEN fullview_txt
        ELSE IF ~UrlJoin(base, fullview_txt.val).ok
        THEN UrlJoin(base, fullview_txt.val)
        ELSE IF ~preview_txt.ok THEN preview_txt
        ELSE IF ~UrlJoin(base, preview_txt.val).ok
        THEN UrlJoin(base, preview_txt.val)
        ELSE Ok([preview |-> UrlJoin(base, preview_txt.val).val,
                 fullview |-> UrlJoin(base, fullview_txt.val).val])

\* View::extract_urls_flash: the second segment of the page's path and the
\* third of the embed's; nth(..).unwrap() panics where there is none
ViewExtractUrlsFlash(base, d) ==
    LET segs0 == TextPathSegments(base)
        embed == SelectFirst(d.flash)
        fullview_txt == ResourcesAttr(embed.val, "data")
        fullview == UrlJoin(base, fullview_txt.val)
        segs1 == TextPathSegments(fullview.val)
        preview_txt == <<"/", "/", CdnHost, "/">> \o segs0[2]
                       \o <<"@", "2", "0", "0", "-">> \o segs1[3]
                       \o <<".", "j", "p", "g">>
    IN  IF Len(segs0) < 2 THEN Panicked
        ELSE IF ~embed.ok THEN embed
        ELSE IF ~fullview_txt.ok THEN fullview_txt
        ELSE IF ~fullview.ok THEN fullview
        ELSE IF Len(segs1) < 3 THEN Panicked
        ELSE IF ~UrlJoin(base, preview_txt).ok THEN UrlJoin(base, preview_txt)
        ELSE Ok([preview |-> UrlJoin(base, preview_txt).val,
                 fullview |-> fullview.val])

\* the (preview, fullview) of from_html: the image's, the gate error where
\* there is no image and the marker is found, or else the flash embed's
ViewUrls(base, d) ==
    IF SelectFirst(d.subimg).ok
    THEN ViewExtractUrls(base, SelectFirst(d.subimg).val)
    ELSE IF SelectFirst(d.mature).ok THEN Err("Nsfw")
    ELSE ViewExtractUrlsFlash(base, d)

\* the view id of the page's URL
ViewIdOfUrl(base) ==
    LET segments == TextPathSegments(base)
    IN  IF NextAt(segments, 1) # Some(sView) THEN Err("IncorrectUrl")
        ELSE IF NextAt(segments, 2) = None THEN Err("IncorrectUrl")
        ELSE InvalidInteger(ParseU64(Unwrap(NextAt(segments, 2))))

\* the SubmissionKind of the class of #submission_page
ViewKind(d) ==
    LET kind_elem == SelectFirst(d.kind)
        kind_class == ResourcesAttr(kind_elem.val, "class")
    IN  IF ~kind_elem.ok THEN kind_elem
        ELSE IF ~kind_class.ok THEN kind_class
        ELSE IF Contains(kind_class.val, "page-content-type-flash")
        THEN Ok("Flash")
        ELSE IF Contains(kind_class.val, "page-content-type-image")
        THEN Ok("Image")
        ELSE IF Contains(kind_class.val, "page-content-type-text")
        THEN Ok("Text")
        ELSE IF Contains(kind_class.val, "page-content-type-music")
        THEN Ok("Audio")
        ELSE Err("MissingAttribute")

\* select_first, attr and url.join: the Url an element's attribute names
JoinedAttr(base, matches, attribute) ==
    LET elem == SelectFirst(matches)
    IN  IF ~elem.ok THEN elem
        ELSE IF ~ResourcesAttr(elem.val, attribute).ok
        THEN ResourcesAttr(elem.val, attribute)
        ELSE UrlJoin(base, ResourcesAttr(elem.val, attribute).val)

\* select_first and text
SelectedText(matches) ==
    IF ~SelectFirst(matches).ok THEN SelectFirst(matches)
    ELSE Ok(ResourcesText(SelectFirst(matches).val))

\* select_first and number
SelectedNumber(matches) ==
    IF ~SelectFirst(matches).ok THEN SelectFirst(matches)
    ELSE ResourcesNumber(SelectFirst(matches).val)

\* <Rating as FromStr>::from_str
RatingFromStr(t) ==
    IF t = <<"Adult">> THEN Ok("Adult")
    ELSE IF t = <<"Mature">> THEN Ok("Mature")
    ELSE IF t = <<"General">> THEN Ok("General")
    ELSE Err("UnknownRating")

ViewRating(d) ==
    IF ~SelectFirst(d.rating).ok THEN SelectFirst(d.rating)
    ELSE RatingFromStr(ResourcesText(SelectFirst(d.rating).val))

ViewPosted(d) ==
    IF ~SelectFirst(d.posted).ok THEN SelectFirst(d.posted)
    ELSE ResourcesDatetime(SelectFirst(d.posted).val)

ViewDescription(base, d) ==
    IF ~SelectFirst(d.description).ok THEN SelectFirst(d.description)
    ELSE Ok(Simplify(base, SelectFirst(d.description).val))

\* the artist: the slug is the href between "/user/" and its last
\* character; slicing panics where the href is "/user/" alone
ViewArtist(d) ==
    LET artist_elem == SelectFirst(AttrStartsWith(d.artists, "href",
                                                  sUserPrefix))
        user_href == Unwrap(Attr(artist_elem.val, "href"))
    IN  IF ~artist_elem.ok THEN artist_elem
        ELSE IF Len(user_href) - 1 < 6 THEN Panicked
        ELSE Ok([slug |-> SubSeq(user_href, 7, Len(user_href) - 1),
                 name |-> ResourcesText(artist_elem.val)])

\* the comment count of the page read from the view count's element
ViewNComments_FromViews(d) == SelectedNumber(d.views)

\* n_comments: the number in .stats-container .comments .font-large
ViewNComments(d) == SelectedNumber(d.n_comments)

\* doc.select(..).map(|c| Self::extract_comment(&url, view_id, c))
\*    .collect::<Result<Vec<_>, _>>(): the comments up to the first failure
RECURSIVE ViewComments(_, _, _, _, _)
ViewComments(build, base, view_id, elems, acc) ==
    IF elems = <<>> THEN Ok(acc)
    ELSE LET c == ViewExtractComment(build, base, view_id, Head(elems))
         IN  IF ~c.ok THEN c
             ELSE ViewComments(build, base, view_id, Tail(elems),
                               Append(acc, c.val))

\* the favourite state with the two links taken for each other
ViewFavState_Swapped(d) ==
    LET fav_res == SelectFirst(AttrStartsWith(d.favnav, "href", sFavPrefix))
        unfav_res == SelectFirst(AttrStartsWith(d.favnav, "href",
                                                sUnfavPrefix))
    IN  IF fav_res.ok /\ ~unfav_res.ok
        THEN Ok([faved |-> Some(TRUE),
                 fav_key_href |-> Some(Unwrap(Attr(fav_res.val, "href")))])
        ELSE IF ~fav_res.ok /\ unfav_res.ok
        THEN Ok([faved |-> Some(FALSE),
                 fav_key_href |-> Some(Unwrap(Attr(unfav_res.val, "href")))])
        ELSE IF ~fav_res.ok /\ ~unfav_res.ok
        THEN Ok([faved |-> None, fav_key_href |-> None])
        ELSE Panicked

\* faved and fav_key_href, from the two favourite links
ViewFavState(d) ==
    LET fav_res == SelectFirst(AttrStartsWith(d.favnav, "href", sFavPrefix))
        unfav_res == SelectFirst(AttrStartsWith(d.favnav, "href",
                                                sUnfavPrefix))
    IN  IF fav_res.ok /\ ~unfav_res.ok
        THEN Ok([faved |-> Some(FALSE),
                 fav_key_href |-> Some(Unwrap(Attr(fav_res.val, "href")))])
        ELSE IF ~fav_res.ok /\ unfav_res.ok
        THEN Ok([faved |-> Some(TRUE),
                 fav_key_href |-> Some(Unwrap(Attr(unfav_res.val, "href")))])
        ELSE IF ~fav_res.ok /\ ~unfav_res.ok
        THEN Ok([faved |-> None, fav_key_href |-> None])
        ELSE Panicked

\* fav_key: Result<Option<FavKey>, ParseError>
ViewFavKey(base, fav_key_href) ==
    IF fav_key_href = None THEN Ok(None)
    ELSE IF ~UrlJoin(base, Unwrap(fav_key_href)).ok
    THEN UrlJoin(base, Unwrap(fav_key_href))
    ELSE LET k == FavKeyTryFrom(
                      UrlParse(UrlJoin(base, Unwrap(fav_key_href)).val).val)
         IN  IF k.ok THEN Ok(Some(k.val))
             ELSE IF k.err = "MissingSegment" THEN Err("IncorrectUrl")
             ELSE Err("InvalidInteger")

\* Submission::parse_url(&preview)?, reached where the URLs were extracted
ViewParsedPreview(urls) ==
    IF urls.ok THEN SubmissionParseUrl(urls.val.preview) ELSE urls

\* the comments, extracted where the URL named a view id
ViewCommentsFor(build, base, view_id, elems) ==
    IF view_id.ok THEN ViewComments(build, base, view_id.val, elems, <<>>)
    ELSE view_id

\* fav_key, made where the favourite links were consistent
ViewFavKeyFor(base, fav) ==
    IF fav.ok THEN ViewFavKey(base, fav.val.fav_key_href) ELSE fav

\* the results of the steps of View::from_html, each as far as it depends on
\* no step that failed
ViewSteps(build, base, d) ==
    [urls |-> ViewUrls(base, d),
     parsed |-> ViewParsedPreview(ViewUrls(base, d)),
     view_id |-> ViewIdOfUrl(base),
     kind |-> ViewKind(d),
     download |-> JoinedAttr(base, d.download, "href"),
     category |-> SelectedText(d.category),
     type_ |-> SelectedText(d.type_),
     n_views |-> SelectedNumber(d.views),
     n_comments |-> ViewNComments(d),
     n_favorites |-> SelectedNumber(d.favorites),
     rating |-> ViewRating(d),
     posted |-> ViewPosted(d),
     title |-> SelectedText(d.title),
     description |-> ViewDescription(base, d),
     avatar |-> JoinedAttr(base, d.avatar, "src"),
     artist |-> ViewArtist(d),
     tags |-> Ok([i \in 1..Len(d.tags) |-> ResourcesText(d.tags[i])]),
     comments |-> ViewCommentsFor(build, base, ViewIdOfUrl(base), d.comments),
     fav |-> ViewFavState(d),
     fav_key |-> ViewFavKeyFor(base, ViewFavState(d))]

\* the order in which from_html takes its steps
ViewStepOrder ==
    <<"urls", "parsed", "view_id", "kind", "download", "category", "type_",
      "n_views", "n_comments", "n_favorites", "rating", "posted", "title",
      "description", "avatar", "artist", "tags", "comments", "fav", "fav_key">>

\* the first step that failed (`?`, or a panic), or 0
FirstFailure(steps, order) ==
    IF \A i \in 1..Len(order) : steps[order[i]].ok THEN 0
    ELSE CHOOSE i \in 1..Len(order) :
             /\ ~steps[order[i]].ok
             /\ \A k \in 1..(i - 1) : steps[order[k]].ok

\* Ok(View { .. }) of the steps' values
ViewOf(s) ==
    Ok([faved |-> s.fav.val.faved,
        fav_key |-> s.fav_key.val,
        submission |->
            [kind |-> s.kind.val,
             view_id |-> s.view_id.val,
             created |-> s.parsed.val.created,
             cdn |-> s.parsed.val.cdn,
             rating |-> s.rating.val,
             title |-> s.title.val,
             description |-> s.description.val,
             artist |-> [avatar |-> s.avatar.val,
                         name |-> s.artist.val.name,
                         slug |-> s.artist.val.slug]],
        fullview |-> s.urls.val.fullview,
        download |-> s.download.val,
        category |-> s.category.val,
        type_ |-> s.type_.val,
        tags |-> s.tags.val,
        n_views |-> s.n_views.val,
        n_comments |-> s.n_comments.val,
        n_favorites |-> s.n_favorites.val,
        posted |-> s.posted.val,
        comments |-> s.comments.val])

\* the result of from_html: the error of the first step that failed, or the
\* View
ViewResult(steps) ==
    IF FirstFailure(steps, ViewStepOrder) = 0 THEN ViewOf(steps)
    ELSE steps[ViewStepOrder[FirstFailure(steps, ViewStepOrder)]]

\* impl FromHtml for View
ViewFromHtml(build, base, d) == ViewResult(ViewSteps(build, base, d))

\* View::faved, View::n_comments, View::comments
ViewFaved(v) == v.faved
ViewNCommentsOf(v) == v.n_comments
ViewCommentsOf(v) == v.comments

\* impl TryFrom<&View> for FavKey
FavKeyTryFromView(v) ==
    IF v.fav_key = None THEN Err("UnauthenticatedError")
    ELSE Ok(Unwrap(v.fav_key))

-----------------------------------------------------------------------------
(* The view documents from_html is run on.                                 *)

TextOnly(name, classes, t) == TextElement(name, classes, NoAttrs, <<t>>)

sPreview == <<"/", "/", CdnHost, "/", "7", "@", "4", "-", "5", ".", "j">>
sFullview == <<"/", "/", CdnHost, "/", "f", ".", "p">>

SubmissionImg(attrs) == Element("img", {}, attrs)

GoodSubimg ==
    SubmissionImg(("data-fullview-src" :> sFullview)
                  @@ ("data-preview-src" :> sPreview))

\* no img#submissionImg; one as the site writes it; one with no data
\* attribute; one with no preview; one whose preview names no integer
SubimgSamples ==
    {<<>>,
     <<GoodSubimg>>,
     <<SubmissionImg(NoAttrs)>>,
     <<SubmissionImg("data-fullview-src" :> sFullview)>>,
     <<SubmissionImg(("data-fullview-src" :> sFullview)
                     @@ ("data-preview-src" :> <<"/", "p">>))>>}

MatureMarker == Element("div", {}, [id |-> <<"pageid-matureimage-error">>])
MatureSamples == {<<>>, <<MatureMarker>>}

FlashEmbed(attrs) == Element("object", {}, attrs)

\* no object#flash_embed; one as the site writes it; one with no data; one
\* whose data has one path segment
FlashSamples ==
    {<<>>,
     <<FlashEmbed([data |-> <<"/", "f", "/", "7", "/", "9", "/", "x">>])>>,
     <<FlashEmbed(NoAttrs)>>,
     <<FlashEmbed([data |-> <<"/", "f">>])>>}

\* the page's URL: a view's, one with no integer, a journal's, the site's
ViewUrlSamples ==
    {<<Origin, "/">> \o sView \o <<"/", "7", "/">>,
     <<Origin, "/">> \o sView \o <<"/", "x", "/">>,
     <<Origin, "/">> \o sJournal \o <<"/", "7", "/">>,
     <<Origin, "/">>}

FavLink(href) == Element("a", {}, [href |-> href])
sFavHref == sFavPrefix \o <<"7", "/", "?">> \o sKey \o <<"=", "k">>
sUnfavHref == sUnfavPrefix \o <<"7", "/", "?">> \o sKey \o <<"=", "k">>

\* the links of .favorite-nav
FavNavSamples ==
    {<<>>,
     <<FavLink(sFavHref)>>,
     <<FavLink(sUnfavHref)>>,
     <<FavLink(sFavHref), FavLink(sUnfavHref)>>,
     <<FavLink(sUnfavHref), FavLink(sFavHref)>>,
     <<FavLink(<<"/", "g">>)>>,
     <<FavLink(<<"/", "g">>), FavLink(sUnfavHref)>>,
     <<FavLink(sFavPrefix \o <<"7", "/">>)>>,
     <<FavLink(sUnfavPrefix \o <<"x", "/", "?">> \o sKey \o <<"=", "k">>)>>}

HiddenComment ==
    CommentElement(Some(sWidth \o <<"1", "0", "0", "%">>),
                   <<AnchorOf(sCid \o <<"9">>)>>, <<>>, <<>>, <<>>, <<>>, <<>>)

\* the comment containers of a page
CommentSeqSamples ==
    {<<>>,
     <<WholeComment(Some(sWidth \o <<"9", "7", "%">>))>>,
     <<WholeComment(Some(sWidth \o <<"9", "7", "%">>)), HiddenComment>>,
     <<HiddenComment, WholeComment(Some(sWidth \o <<"x", "%">>))>>,
     <<WholeComment(Some(sWidth \o <<"1", "9", "0", "%">>))>>}

\* the text of a count element
CountSamples == {<<"2">>, <<"0">>, <<"x">>}

CountElement(t) == TextOnly("span", {"font-large"}, t)

\* a view page as the site writes it, for a user who is logged in
WholeView ==
    [subimg |-> <<GoodSubimg>>,
     mature |-> <<>>,
     flash |-> <<>>,
     kind |-> <<Element("div", {},
                        [class |-> <<"page-content-type-image">>])>>,
     download |-> <<Element("a", {}, [href |-> <<"/", "d">>])>>,
     category |-> <<TextOnly("span", {"category-name"}, <<"C">>)>>,
     type_ |-> <<TextOnly("span", {"type-name"}, <<"T">>)>>,
     views |-> <<CountElement(<<"3">>)>>,
     n_comments |-> <<CountElement(<<"2">>)>>,
     favorites |-> <<CountElement(<<"1">>)>>,
     rating |-> <<TextOnly("span", {"rating-box"}, <<"General">>)>>,
     posted |-> <<GoodDate>>,
     title |-> <<TextOnly("p", {}, <<"S">>)>>,
     description |-> <<BodyDoc>>,
     avatar |-> <<Element("img", {}, [src |-> <<"/", "a">>])>>,
     artists |-> <<TextElement("a", {}, [href |-> sUserPrefix \o <<"u", "/">>],
                               << <<"U">> >>)>>,
     tags |-> <<TextOnly("span", {"tags"}, <<"g">>)>>,
     comments |-> <<WholeComment(Some(sWidth \o <<"9", "7", "%">>)),
                    HiddenComment>>,
     favnav |-> <<FavLink(sFavHref)>>]

\* the selectors of from_html that must match
ViewMandatory ==
    {"kind", "download", "category", "type_", "views", "n_comments",
     "favorites", "rating", "posted", "title", "description", "avatar",
     "artists"}

\* the document d without the elements that the selectors of names match
Without(d, names) ==
    [f \in DOMAIN d |-> IF f \in names THEN <<>> ELSE d[f]]

\* at most one mandatory element is missing
AbsentSamples == {{}} \cup {{n} : n \in ViewMandatory}

ViewCall(b, u, d) ==
    [resource |-> "View", build |-> b, url |-> u, doc |-> d]

-----------------------------------------------------------------------------
(* View::from_html as a state machine: the page is parsed, then a FavKey   *)
(* is asked of the View.                                                   *)

InitView ==
    /\ \/ \E u \in ViewUrlSamples, si \in SubimgSamples, m \in MatureSamples,
             fl \in FlashSamples, ab \in AbsentSamples :
            page = ViewCall("debug", u,
                            Without([WholeView EXCEPT !.subimg = si,
                                                      !.mature = m,
                                                      !.flash = fl], ab))
       \/ \E fv \in FavNavSamples, ab \in AbsentSamples :
            page = ViewCall("debug", <<Origin, "/">> \o sView \o <<"/", "7", "/">>,
                            Without([WholeView EXCEPT !.favnav = fv], ab))
       \/ \E b \in Builds, n \in CountSamples, cs \in CommentSeqSamples,
             fv \in FavNavSamples :
            page = ViewCall(b, <<Origin, "/">> \o sView \o <<"/", "7", "/">>,
                            [WholeView EXCEPT !.n_comments = <<CountElement(n)>>,
                                              !.comments = cs,
                                              !.favnav = fv])
    /\ pc = "start"
    /\ fields = <<>>
    /\ result = None
    /\ KeysIdle
    /\ HtmlIdle
    /\ ClientIdle

\* View::from_html(url, &doc)
ViewFromHtmlStep ==
    /\ pc = "start"
    /\ page.resource = "View"
    /\ result' = Some(ViewFromHtml(page.build, page.url, page.doc))
    /\ pc' = "parsed"
    /\ UNCHANGED <<page, fields>>
    /\ UNCHANGED keyVars
    /\ UNCHANGED htmlVars
    /\ UNCHANGED clientVars

\* FavKey::try_from(&view)
FavKeyFromViewStep ==
    /\ pc = "parsed"
    /\ page.resource = "View"
    /\ Unwrap(result).ok
    /\ fields' = [fav_key |-> FavKeyTryFromView(Unwrap(result).val)]
    /\ pc' = "keyed"
    /\ UNCHANGED <<page, result>>
    /\ UNCHANGED keyVars
    /\ UNCHANGED htmlVars
    /\ UNCHANGED clientVars

NextView ==
    \/ ViewFromHtmlStep
    \/ FavKeyFromViewStep

-----------------------------------------------------------------------------
(* The journal page (src/src/resources/journal.rs).                        *)
(*                                                                         *)
(* A journal document holds, for each selector of Journal::from_html, the  *)
(* candidates it matches: item (.journal-item), and below the first item   *)
(* header (.journal-header), footer (.journal-footer) and content          *)
(* (.journal-content), each a subtree; title, posted, username, slugs      *)
(* (#user-profile .user-nav a), avatar, n_comments and comments            *)
(* (#comments-journal .comment_container).                                 *)

\* the journal id of the page's URL
JournalIdOfUrl(base) ==
    LET segments == TextPathSegments(base)
    IN  IF NextAt(segments, 1) # Some(sJournal) THEN Err("IncorrectUrl")
        ELSE IF NextAt(segments, 2) = None THEN Err("IncorrectUrl")
        ELSE InvalidInteger(ParseU64(Unwrap(NextAt(segments, 2))))

\* an optional banner: Some(simplify(..)) of the first match, None for none
JournalBanner(base, matches) ==
    IF SelectFirst(matches).ok
    THEN Some(Simplify(base, SelectFirst(matches).val))
    ELSE None

JournalContent(base, d) ==
    IF ~SelectFirst(d.content).ok THEN SelectFirst(d.content)
    ELSE Ok(Simplify(base, SelectFirst(d.content).val))

\* the name: the trimmed text of the heading after its "~"
JournalUsername(d) ==
    LET username_elem == SelectFirst(d.username)
        username_txt == Trim(ResourcesText(username_elem.val))
    IN  IF ~username_elem.ok THEN username_elem
        ELSE IF ~StartsWith(username_txt, <<"~">>) THEN Err("MissingElement")
        ELSE Ok(Tail(username_txt))

\* the slug: the href after "/user/", without one "/" at its end
JournalSlug(d) ==
    LET slug_elem == SelectFirst(AttrStartsWith(d.slugs, "href", sUserPrefix))
        href == Unwrap(Attr(slug_elem.val, "href"))
        slug_attr == SubSeq(href, 7, Len(href))
    IN  IF ~slug_elem.ok THEN slug_elem
        ELSE IF slug_attr # <<>> /\ slug_attr[Len(slug_attr)] = "/"
        THEN Ok(SubSeq(slug_attr, 1, Len(slug_attr) - 1))
        ELSE Ok(slug_attr)

\* n_comments: the number in .journal-body-theme + div.section-footer span
JournalNComments(d) == SelectedNumber(d.n_comments)

\* doc.select(..).map(|c| CommentContainer::extract(&url, comment_root, c))
\*    .collect::<Result<Vec<_>, _>>(): the comments up to the first failure
RECURSIVE JournalComments(_, _, _, _, _)
JournalComments(build, base, root, elems, acc) ==
    IF elems = <<>> THEN Ok(acc)
    ELSE LET c == CommentContainerExtract(build, base, root, Head(elems))
         IN  IF ~c.ok THEN c
             ELSE JournalComments(build, base, root, Tail(elems),
                                  Append(acc, c.val))

\* impl FromHtml for Journal
JournalFromHtml(build, base, d) ==
    LET journal_id == JournalIdOfUrl(base)
        j == SelectFirst(d.item)
        content == JournalContent(base, d)
        title == SelectedText(d.title)
        posted == ViewPosted(d)
        username == JournalUsername(d)
        slug == JournalSlug(d)
        avatar == JoinedAttr(base, d.avatar, "src")
        n_comments == JournalNComments(d)
        comments == JournalComments(build, base,
                                    [kind |-> "Journal", id |-> journal_id.val],
                                    d.comments, <<>>)
    IN  IF ~journal_id.ok THEN journal_id
        ELSE IF ~j.ok THEN j
        ELSE IF ~content.ok THEN content
        ELSE IF ~title.ok THEN title
        ELSE IF ~posted.ok THEN posted
        ELSE IF ~username.ok THEN username
        ELSE IF ~slug.ok THEN slug
        ELSE IF ~avatar.ok THEN avatar
        ELSE IF ~n_comments.ok THEN n_comments
        ELSE IF ~comments.ok THEN comments
        ELSE Ok([author |-> [name |-> username.val, slug |-> slug.val,
                             avatar |-> avatar.val],
                 journal_id |-> journal_id.val,
                 content |-> content.val,
                 title |-> title.val,
                 posted |-> posted.val,
                 header |-> JournalBanner(base, d.header),
                 footer |-> JournalBanner(base, d.footer),
                 n_comments |-> n_comments.val,
                 comments |-> comments.val])

\* Journal::header, Journal::footer, Journal::n_comments, Journal::comments
JournalHeader(j) == j.header
JournalFooter(j) == j.header
JournalNCommentsOf(j) == j.n_comments
JournalCommentsOf(j) == j.comments

-----------------------------------------------------------------------------
(* The journal documents from_html is run on.                              *)

\* a banner or the content: the element and the text node below it
BlockDoc(class, t) ==
    <<[parent |-> 0, node |-> Element("div", {class}, NoAttrs)],
      [parent |-> 1, node |-> [kind |-> "Text", text |-> t]]>>

HeaderDoc == BlockDoc("journal-header", <<"h">>)
FooterDoc == BlockDoc("journal-footer", <<"f">>)

HeaderSamples == {<<>>, <<HeaderDoc>>}
FooterSamples == {<<>>, <<FooterDoc>>, <<BlockDoc("journal-footer", <<"h">>)>>}

\* a journal page as the site writes it, without its banners
WholeJournal ==
    [item |-> <<Element("div", {"journal-item"}, NoAttrs)>>,
     header |-> <<>>,
     footer |-> <<>>,
     content |-> <<BlockDoc("journal-content", <<"c", "&">>)>>,
     title |-> <<TextOnly("h2", {"journal-title"}, <<"J">>)>>,
     posted |-> <<GoodDate>>,
     username |-> <<TextOnly("h2", {}, <<" ", "~", "U", " ">>)>>,
     slugs |-> <<Element("a", {}, [href |-> <<"/", "g">>]),
                 Element("a", {}, [href |-> sUserPrefix \o <<"u", "/">>])>>,
     avatar |-> <<Element("img", {"user-nav-avatar"},
                          [src |-> <<"/", "a">>])>>,
     n_comments |-> <<TextOnly("span", {}, <<"2">>)>>,
     comments |-> <<WholeComment(Some(sWidth \o <<"9", "7", "%">>)),
                    HiddenComment>>]

\* the selectors of from_html that must match
JournalMandatory ==
    {"item", "content", "title", "posted", "username", "slugs", "avatar",
     "n_comments"}

JournalAbsentSamples == {{}} \cup {{n} : n \in JournalMandatory}

JournalCall(b, u, d) ==
    [resource |-> "Journal", build |-> b, url |-> u, doc |-> d]

InitJournal ==
    /\ \/ \E u \in ViewUrlSamples, h \in HeaderSamples, f \in FooterSamples,
             ab \in JournalAbsentSamples :
            page = JournalCall("debug", u,
                               Without([WholeJournal EXCEPT !.header = h,
                                                            !.footer = f], ab))
       \/ \E b \in Builds, n \in CountSamples, cs \in CommentSeqSamples,
             h \in HeaderSamples :
            page = JournalCall(b, <<Origin, "/">> \o sJournal \o <<"/", "7", "/">>,
                               [WholeJournal EXCEPT
                                    !.n_comments = <<TextOnly("span", {}, n)>>,
                                    !.comments = cs,
                                    !.header = h])
    /\ pc = "start"
    /\ fields = <<>>
    /\ result = None
    /\ KeysIdle
    /\ HtmlIdle
    /\ ClientIdle

\* Journal::from_html(url, &doc)
JournalFromHtmlStep ==
    /\ pc = "start"
    /\ page.resource = "Journal"
    /\ result' = Some(JournalFromHtml(page.build, page.url, page.doc))
    /\ pc' = "parsed"
    /\ UNCHANGED <<page, fields>>
    /\ UNCHANGED keyVars
    /\ UNCHANGED htmlVars
    /\ UNCHANGED clientVars

\* journal.header() and journal.footer()
JournalBannersStep ==
    /\ pc = "parsed"
    /\ page.resource = "Journal"
    /\ Unwrap(result).ok
    /\ fields' = [header |-> JournalHeader(Unwrap(result).val),
                  footer |-> JournalFooter(Unwrap(result).val)]
    /\ pc' = "read"
    /\ UNCHANGED <<page, result>>
    /\ UNCHANGED keyVars
    /\ UNCHANGED htmlVars
    /\ UNCHANGED clientVars

NextJournal ==
    \/ JournalFromHtmlStep
    \/ JournalBannersStep

\* a view page or a journal page is parsed and its record is read
InitPages == InitView \/ InitJournal

NextPages == NextView \/ NextJournal

SpecPages == InitPages /\ [][NextPages]_vars

-----------------------------------------------------------------------------
(* The submissions listing (src/src/resources/msg/submissions.rs).         *)
(*                                                                         *)
(* A listing document holds buttons (the a.button elements), scripts (the  *)
(* script elements) and figures (section[id^='gallery-'] > figure), each   *)
(* figure with the img elements below it. A script is what from_html reads *)
(* of its text: whether it contains "var descriptions =", whether its      *)
(* first statement is framed by "var descriptions = {" and "}", and the    *)
(* entries of the JSON object that statement holds, None where serde_json  *)
(* refuses the text for HashMap<&str, SubInfo>.                            *)

sListingPrefix == <<"/">> \o sMsg \o <<"/">> \o sSubmissions \o <<"/">>
sSid == <<"s", "i", "d", "-">>

\* a.button.prev[href^='/msg/submissions/'][href*='~']
PrevLinks(d) ==
    SelectSeq(AttrStartsWith(d.buttons, "href", sListingPrefix),
              LAMBDA e : /\ HasClass(e, "prev")
                         /\ Contains(Unwrap(Attr(e, "href")), "~"))

\* a.button:not(.prev)[href^='/msg/submissions/'][href*='~']
NextLinks(d) ==
    SelectSeq(AttrStartsWith(d.buttons, "href", sListingPrefix),
              LAMBDA e : /\ ~HasClass(e, "prev")
                         /\ Contains(Unwrap(Attr(e, "href")), "~"))

\* Submissions::extract_nav, given the elements the selector matches
SubmissionsExtractNav(base, matches) ==
    LET elem == SelectFirst(matches)
        href == ResourcesAttr(elem.val, "href")
        joined == UrlJoin(base, href.val)
    IN  IF ~elem.ok THEN elem
        ELSE IF ~href.ok THEN href
        ELSE IF ~joined.ok THEN joined
        ELSE IF ~SubmissionsKeyTryFrom(UrlParse(joined.val).val).ok
        THEN Err("IncorrectUrl")
        ELSE SubmissionsKeyTryFrom(UrlParse(joined.val).val)

\* extract_nav where a link that names no listing counts as no link
SubmissionsNav_Lenient(base, matches) ==
    IF ~SubmissionsExtractNav(base, matches).ok THEN Ok(None)
    ELSE Ok(Some(SubmissionsExtractNav(base, matches).val))

\* prev and next of from_html: only MissingElement becomes None
SubmissionsNav(base, matches) ==
    LET res == SubmissionsExtractNav(base, matches)
    IN  IF res.ok THEN Ok(Some(res.val))
        ELSE IF res.err = "MissingElement" THEN Ok(None)
        ELSE res

\* the entries of the first script that contains "var descriptions ="
SubmissionsScript(d) ==
    LET found == SelectSeq(d.scripts, LAMBDA s : s.contains)
    IN  IF found = <<>> THEN Err("MissingElement")
        ELSE IF ~found[1].framed THEN Err("MissingElement")
        ELSE IF found[1].json = None THEN Err("Json")
        ELSE Ok(Unwrap(found[1].json))

\* the keys of the JSON object
EntryKeys(entries) == {entries[i].key : i \in 1..Len(entries)}

\* HashMap<&str, SubInfo>: of the entries of one key the last is kept
DescriptionsStr(entries) ==
    [k \in EntryKeys(entries) |->
        entries[CHOOSE i \in 1..Len(entries) :
                    /\ entries[i].key = k
                    /\ \A j \in (i + 1)..Len(entries) : entries[j].key # k].info]

\* the ids the keys of the object name
EntryIds(entries) == {ParseU64(k).val : k \in EntryKeys(entries)}

\* HashMap<u64, SubInfo>: the maps the insertions can end in. The keys are
\* inserted in the iteration order of the first map, which is not fixed, so
\* of the keys that name one id any may be the last and keep its entry.
SubmissionsDescriptions(entries) ==
    IF \E k \in EntryKeys(entries) : ~ParseU64(k).ok
    THEN {Err("InvalidInteger")}
    ELSE {Ok(m) : m \in
            {f \in [EntryIds(entries) ->
                        {DescriptionsStr(entries)[k] : k \in EntryKeys(entries)}] :
                \A id \in EntryIds(entries) :
                    \E k \in EntryKeys(entries) :
                        /\ ParseU64(k).val = id
                        /\ f[id] = DescriptionsStr(entries)[k]}}

\* the rating of a figure's class
FigureRating(class) ==
    IF Contains(class, "r-adult") THEN Ok("Adult")
    ELSE IF Contains(class, "r-mature") THEN Ok("Mature")
    ELSE IF Contains(class, "r-general") THEN Ok("General")
    ELSE Err("MissingAttribute")

\* the view id of a figure's id
FigureViewId(figure_elem) ==
    LET id_attr == ResourcesAttr(figure_elem, "id")
    IN  IF ~id_attr.ok THEN id_attr
        ELSE IF ~StartsWith(id_attr.val, sSid) THEN Err("MissingAttribute")
        ELSE InvalidInteger(ParseU64(SubSeq(id_attr.val, 5, Len(id_attr.val))))

\* the Submission of a figure and its entry
SubmissionOf(base, view_id, rating, preview, sub_info) ==
    [view_id |-> view_id,
     rating |-> rating,
     preview |-> preview,
     title |-> sub_info.title,
     description |-> sub_info.description,
     artist |-> [name |-> sub_info.username,
                 slug |-> sub_info.lower,
                 avatar |-> UrlJoin(base, <<"/", "/", AvatarHost, "/">>
                                          \o sub_info.avatar_mtime \o <<"/">>
                                          \o sub_info.lower
                                          \o <<".", "g", "i", "f">>).val]]

\* the loop over the figures where a figure without an entry is left out
RECURSIVE SubmissionsItems_Dropping(_, _, _, _)
SubmissionsItems_Dropping(base, figures, descriptions, items) ==
    IF figures = <<>> THEN Ok(items)
    ELSE
    LET figure_elem == Head(figures)
        class == ResourcesAttr(figure_elem, "class")
        rating == FigureRating(class.val)
        view_id == FigureViewId(figure_elem)
        preview == JoinedAttr(base, figure_elem.imgs, "src")
    IN  IF ~class.ok THEN class
        ELSE IF ~rating.ok THEN rating
        ELSE IF ~view_id.ok THEN view_id
        ELSE IF ~preview.ok THEN preview
        ELSE IF view_id.val \notin DOMAIN descriptions
        THEN SubmissionsItems_Dropping(base, Tail(figures), descriptions, items)
        ELSE SubmissionsItems_Dropping(
                 base, Tail(figures),
                 [k \in DOMAIN descriptions \ {view_id.val} |-> descriptions[k]],
                 Append(items,
                        SubmissionOf(base, view_id.val, rating.val, preview.val,
                                     descriptions[view_id.val])))

\* for figure_elem in doc.select(&figure_sel) { .. items.push(..) }: the
\* entry of the figure's id is removed from the map, and unwrap() panics
\* where there is none
RECURSIVE SubmissionsItems(_, _, _, _)
SubmissionsItems(base, figures, descriptions, items) ==
    IF figures = <<>> THEN Ok(items)
    ELSE
    LET figure_elem == Head(figures)
        class == ResourcesAttr(figure_elem, "class")
        rating == FigureRating(class.val)
        view_id == FigureViewId(figure_elem)
        preview == JoinedAttr(base, figure_elem.imgs, "src")
    IN  IF ~class.ok THEN class
        ELSE IF ~rating.ok THEN rating
        ELSE IF ~view_id.ok THEN view_id
        ELSE IF ~preview.ok THEN preview
        ELSE IF view_id.val \notin DOMAIN descriptions THEN Panicked
        ELSE SubmissionsItems(
                 base, Tail(figures),
                 [k \in DOMAIN descriptions \ {view_id.val} |-> descriptions[k]],
                 Append(items,
                        SubmissionOf(base, view_id.val, rating.val, preview.val,
                                     descriptions[view_id.val])))

\* impl FromHtml for Submissions, with the map the insertions ended in
SubmissionsFromHtml(base, d, descriptions) ==
    LET prev == SubmissionsNav(base, PrevLinks(d))
        next == SubmissionsNav(base, NextLinks(d))
        script == SubmissionsScript(d)
        items == SubmissionsItems(base, d.figures, descriptions.val, <<>>)
    IN  IF ~prev.ok THEN prev
        ELSE IF ~next.ok THEN next
        ELSE IF ~script.ok THEN script
        ELSE IF ~descriptions.ok THEN descriptions
        ELSE IF ~items.ok THEN items
        ELSE Ok([items |-> items.val, next |-> next.val, prev |-> prev.val])

\* the maps from_html can build of the page's script
DescriptionsOf(d) ==
    IF SubmissionsScript(d).ok
    THEN SubmissionsDescriptions(SubmissionsScript(d).val)
    ELSE {SubmissionsScript(d)}

-----------------------------------------------------------------------------
(* The listing documents from_html is run on.                              *)

ListingUrl == <<Origin>> \o sListingPrefix

Button(classes, href) == Element("a", {"button"} \cup classes, [href |-> href])

sGoodCursor == sListingPrefix \o sNew \o <<"~", "7", "@", "4", "/">>
sOtherCursor == sListingPrefix \o sOld \o <<"~", "9", "@", "4", "/">>
sBadOrder == sListingPrefix \o <<"x", "~", "7", "/">>
sBadCursor == sListingPrefix \o sNew \o <<"~", "x", "@", "4", "/">>
sNoCursor == sListingPrefix \o sNew \o <<"@", "4", "/">>

\* the a.button elements of one direction; the link without "~" and the one
\* to another page are not matched by the selectors
ButtonSamples(classes) ==
    {<<>>,
     <<Button(classes, sGoodCursor)>>,
     <<Button(classes, sOtherCursor), Button(classes, sBadOrder)>>,
     <<Button(classes, sBadOrder)>>,
     <<Button(classes, sBadCursor)>>,
     <<Button(classes, sNoCursor)>>,
     <<Button(classes, <<"/", "g", "~">>), Button(classes, sGoodCursor)>>}

SubInfo(t) ==
    [title |-> <<t>>, description |-> <<"d">>, username |-> <<"U">>,
     lower |-> <<"u">>, avatar_mtime |-> <<"1">>]

Entry(k, t) == [key |-> k, info |-> SubInfo(t)]

Script(contains, framed, json) ==
    [contains |-> contains, framed |-> framed, json |-> json]

\* the entries of the object: none, one, two, two in the other order, one
\* key twice, two keys of one id, a key that is no integer
EntrySamples ==
    {<<>>,
     <<Entry(<<"7">>, "A")>>,
     <<Entry(<<"7">>, "A"), Entry(<<"9">>, "B")>>,
     <<Entry(<<"9">>, "B"), Entry(<<"7">>, "A")>>,
     <<Entry(<<"7">>, "A"), Entry(<<"7">>, "B")>>,
     <<Entry(<<"0", "7">>, "A"), Entry(<<"7">>, "B")>>,
     <<Entry(<<"7">>, "A"), Entry(<<"x">>, "B")>>}

\* the scripts of a page apart from the well-formed one
ScriptSamples ==
    {<<>>,
     <<Script(FALSE, TRUE, Some(<<Entry(<<"7">>, "A")>>))>>,
     <<Script(TRUE, FALSE, Some(<<Entry(<<"7">>, "A")>>))>>,
     <<Script(TRUE, TRUE, None)>>}

Figure(attrs, imgs) ==
    [kind |-> "Element", name |-> "figure", classes |-> {}, attrs |-> attrs,
     imgs |-> imgs]

PreviewImg == Element("img", {}, [src |-> sPreview])

GoodFigure(id) ==
    Figure([class |-> <<"r-general", "t-image">>, id |-> sSid \o id],
           <<PreviewImg>>)

FigureSamples ==
    {<<>>,
     <<GoodFigure(<<"7">>)>>,
     <<GoodFigure(<<"7">>), GoodFigure(<<"9">>)>>,
     <<GoodFigure(<<"9">>), GoodFigure(<<"7">>)>>,
     <<GoodFigure(<<"7">>), GoodFigure(<<"7">>)>>,
     <<GoodFigure(<<"7">>), GoodFigure(<<"5">>)>>,
     <<GoodFigure(<<"x">>)>>,
     <<Figure([id |-> sSid \o <<"7">>], <<PreviewImg>>)>>,
     <<Figure([class |-> <<"t-image">>, id |-> sSid \o <<"7">>],
              <<PreviewImg>>)>>,
     <<Figure([class |-> <<"r-adult">>, id |-> <<"7">>], <<PreviewImg>>)>>,
     <<Figure([class |-> <<"r-mature">>, id |-> sSid \o <<"7">>], <<>>)>>}

ListingCall(buttons, scripts, figures) ==
    [resource |-> "Submissions", url |-> ListingUrl,
     doc |-> [buttons |-> buttons, scripts |-> scripts, figures |-> figures]]

InitSubmissions ==
    /\ \/ \E p \in ButtonSamples({"prev"}), n \in ButtonSamples({}),
             s \in ScriptSamples \cup
                   {<<Script(TRUE, TRUE, Some(<<Entry(<<"7">>, "A")>>))>>} :
            page = ListingCall(p \o n, s, <<GoodFigure(<<"7">>)>>)
       \/ \E e \in EntrySamples, f \in FigureSamples,
             p \in {<<>>, <<Button({"prev"}, sGoodCursor)>>} :
            page = ListingCall(p, <<Script(TRUE, TRUE, Some(e))>>, f)
    /\ pc = "start"
    /\ fields = <<>>
    /\ result = None
    /\ KeysIdle
    /\ HtmlIdle
    /\ ClientIdle

\* the two calls of Self::extract_nav
ExtractNavStep ==
    /\ pc = "start"
    /\ fields' = [prev_res |-> SubmissionsExtractNav(page.url,
                                                     PrevLinks(page.doc)),
                  next_res |-> SubmissionsExtractNav(page.url,
                                                     NextLinks(page.doc))]
    /\ pc' = "nav"
    /\ UNCHANGED <<page, result>>
    /\ UNCHANGED keyVars
    /\ UNCHANGED htmlVars
    /\ UNCHANGED clientVars

\* Submissions::from_html(url, &doc)
SubmissionsFromHtmlStep ==
    /\ pc = "nav"
    /\ \E descriptions \in DescriptionsOf(page.doc) :
           result' = Some(SubmissionsFromHtml(page.url, page.doc, descriptions))
    /\ pc' = "parsed"
    /\ UNCHANGED <<page, fields>>
    /\ UNCHANGED keyVars
    /\ UNCHANGED htmlVars
    /\ UNCHANGED clientVars

NextSubmissions ==
    \/ ExtractNavStep
    \/ SubmissionsFromHtmlStep

SpecSubmissions == InitSubmissions /\ [][NextSubmissions]_vars

-----------------------------------------------------------------------------
(* Properties of the key codec.                                            *)

\* a key of type t has been made from the Url of the input
Parsed(t) == stage \in {"parsed", "formatted", "reparsed"} /\ keyType = t

Formatted(t) == stage \in {"formatted", "reparsed"} /\ keyType = t

TheUrl == Unwrap(url).val
TheKey == Unwrap(key)

\* a text that <u64 as FromStr> accepts
IsU64Text(s) == ParseU64(s).ok

U64Of(s) == ParseU64(s).val

\* the decimal text of a u64 as format!("{}") writes it: digits only, no
\* leading zero
CanonicalInt(s) ==
    /\ s # <<>>
    /\ \A i \in 1..Len(s) : IsDigit(s[i])
    /\ Len(s) = 1 \/ s[1] # "0"
    /\ DigitsValue(s, 0) <= U64Max

RoundTripTypes == {"ViewKey", "JournalKey", "SubmissionsKey", "CommentReplyKey"}

\* C1: for every URL that parses to a ViewKey, JournalKey, SubmissionsKey or
\* CommentReplyKey k, parsing the URL formatted from k yields a key equal
\* to k.
C1_RoundTripClosure ==
    (stage = "reparsed" /\ keyType \in RoundTripTypes)
        => Unwrap(key2) = TheKey

\* a comment target given in the fragment form came back equal from the
\* replyto form
C1_Witness ==
    /\ stage = "reparsed"
    /\ keyType = "CommentReplyKey"
    /\ input.family = "page"
    /\ input.fragment # None
    /\ TheKey.ok
    /\ TheKey.val.reply_to.variant = "ViewComment"
    /\ Unwrap(key2) = TheKey

\* the URL of the input is written as the grammar of key type t documents it,
\* on the site's origin, with integers in decimal
ConformsTo(t) ==
    CASE t = "ViewKey" ->
            /\ input.family = "page"
            /\ input.origin = Origin
            /\ input.first = sView
            /\ CanonicalInt(input.id)
            /\ ~input.extra /\ input.slash /\ input.fragment = None
      [] t = "JournalKey" ->
            /\ input.family = "page"
            /\ input.origin = Origin
            /\ input.first = sJournal
            /\ CanonicalInt(input.id)
            /\ ~input.extra /\ input.slash /\ input.fragment = None
      [] t = "SubmissionsKey" ->
            /\ input.family = "submissions"
            /\ input.origin = Origin
            /\ input.tok \in {sOld, sNew}
            /\ input.cursor = None \/ CanonicalInt(Unwrap(input.cursor))
            /\ input.n # None
            /\ CanonicalInt(Unwrap(input.n))
            /\ input.slash
      [] t = "CommentReplyKey" ->
            \/ /\ input.family = "page"
               /\ input.origin = Origin
               /\ input.first \in {sView, sJournal}
               /\ CanonicalInt(input.id)
               /\ ~input.extra /\ input.slash
               /\ \/ input.fragment = None
                  \/ /\ StartsWith(Unwrap(input.fragment), sCid)
                     /\ CanonicalInt(SubSeq(Unwrap(input.fragment), 5,
                                            Len(Unwrap(input.fragment))))
            \/ /\ input.family = "replyto"
               /\ input.origin = Origin
               /\ input.kind \in {sSubmission, sJournal}
               /\ CanonicalInt(input.id)
               /\ input.slash
      [] OTHER -> FALSE

\* the URL is the one the formatter writes: page size 72, a comment target
\* in the replyto form
CanonicalFor(t) ==
    /\ ConformsTo(t)
    /\ t = "SubmissionsKey" => input.n = Some(<<"7", "2">>)
    /\ t = "CommentReplyKey" =>
            (input.family = "page" => input.fragment = None)

\* C2 as stated: for every key type and every URL that conforms to the key's
\* grammar (any page size, any comment-target syntax), the URL formatted from
\* the parsed key is the same URL.
C2_UrlRoundTripAnySyntax ==
    \A t \in RoundTripTypes :
        (Formatted(t) /\ ConformsTo(t)) => Unwrap(url2) = TheUrl

\* C2 as amended: the URL formatted from the parsed key is the same URL when
\* the URL is written as the formatter writes it: a submissions listing with
\* page size 72, a comment target without a fragment.
C2_UrlRoundTripCanonical ==
    \A t \in RoundTripTypes :
        (Formatted(t) /\ CanonicalFor(t)) => Unwrap(url2) = TheUrl

\* a listing URL with a cursor and page size 72 came back the same
C2_Witness ==
    /\ Formatted("SubmissionsKey")
    /\ CanonicalFor("SubmissionsKey")
    /\ input.cursor # None
    /\ Unwrap(url2) = TheUrl

\* C3: parsing a SubmissionsKey from the listing URL with path
\* /msg/submissions/ succeeds and yields the default key, Ascending with no
\* cursor.
C3_ListingDefault ==
    (/\ Parsed("SubmissionsKey")
     /\ input.family = "short"
     /\ input.segs = <<sMsg, sSubmissions>>
     /\ input.slash)
        => TheKey = Ok(SubmissionsKeyDefault)

\* C4: for /msg/submissions/<tok>[~<cursor>]@<n>/ the key's order is
\* Ascending for old and Descending for new, its cursor is the cursor's value
\* or None, whatever n is; another tok is a failure and a cursor that is no
\* integer is a ParseIntError.
C4_SubmissionsKeyParse ==
    (/\ Parsed("SubmissionsKey")
     /\ input.family = "submissions"
     /\ input.n # None)
        => IF input.tok \notin {sOld, sNew} THEN ~TheKey.ok
           ELSE IF input.cursor # None /\ ~IsU64Text(Unwrap(input.cursor))
                THEN TheKey = Err("ParseIntError")
           ELSE TheKey = Ok(SubmissionsKeyOf(
                    IF input.tok = sOld THEN "Ascending" ELSE "Descending",
                    IF input.cursor = None THEN None
                    ELSE Some(U64Of(Unwrap(input.cursor)))))

\* new~7@48 parsed to Descending after 7
C4_Witness ==
    /\ Parsed("SubmissionsKey")
    /\ input.family = "submissions"
    /\ input.tok = sNew
    /\ input.cursor = Some(<<"7">>)
    /\ input.n = Some(<<"4", "8">>)
    /\ TheKey = Ok(SubmissionsKeyOf("Descending", Some(7)))

\* the value of the first query parameter named key
RECURSIVE KeyParam(_)
KeyParam(q) ==
    IF q = <<>> THEN None
    ELSE IF Head(q)[1] = sKey
         THEN Some(IF Head(q)[2] = None THEN <<>> ELSE Unwrap(Head(q)[2]))
    ELSE KeyParam(Tail(q))

OtherMode(in) ==
    [in EXCEPT !.mode = IF in.mode = sFav THEN sUnfav ELSE sFav]

\* C5: /fav/<id>/?key=<t> and /unfav/<id>/?key=<t> parse to equal FavKeys; a
\* URL of either mode with no key parameter fails to parse; the formatted
\* suffix is fav/<id>/?key=<t> for true and unfav/<id>/?key=<t> for false.
C5_FavKeyModeAgnostic ==
    /\ (Parsed("FavKey") /\ input.family = "fav") =>
        /\ TheKey = FavKeyTryFrom(UrlParse(TextOf(OtherMode(input))).val)
        /\ KeyParam(input.query) = None => ~TheKey.ok
        /\ (KeyParam(input.query) # None /\ IsU64Text(input.id)) =>
              TheKey = Ok(FavKeyOf(U64Of(input.id),
                                   Unwrap(KeyParam(input.query))))
    /\ Formatted("FavKey") =>
        text2 = (IF Unwrap(favMode) THEN sFav ELSE sUnfav) \o <<"/">>
                \o FormatU64(TheKey.val.view_id) \o <<"/", "?">> \o sKey
                \o <<"=">> \o TheKey.val.key

\* a key parsed from a fav URL was formatted as an unfav suffix
C5_Witness ==
    /\ Formatted("FavKey")
    /\ input.family = "fav"
    /\ input.mode = sFav
    /\ favMode = Some(FALSE)
    /\ StartsWith(text2, sUnfav)

\* C6: /view/<id>/ gives View(id), /view/<id>/#cid:<c> gives ViewComment(c),
\* /journal/<id>/ gives Journal(id), /journal/<id>/#cid:<c> gives
\* JournalComment(c), /replyto/submission/<c>/ gives ViewComment(c),
\* /replyto/journal/<c>/ gives JournalComment(c), on any host.
C6_CommentReplyKeySyntaxes ==
    Parsed("CommentReplyKey") =>
        /\ (/\ input.family = "page"
            /\ input.first \in {sView, sJournal}
            /\ IsU64Text(input.id)
            /\ ~input.extra /\ input.slash
            /\ input.fragment = None)
              => TheKey = Ok(CommentReplyKeyOf(ReplyToOf(
                     IF input.first = sView THEN "View" ELSE "Journal",
                     U64Of(input.id))))
        /\ (/\ input.family = "page"
            /\ input.first \in {sView, sJournal}
            /\ IsU64Text(input.id)
            /\ ~input.extra /\ input.slash
            /\ input.fragment # None
            /\ StartsWith(Unwrap(input.fragment), sCid)
            /\ IsU64Text(SubSeq(Unwrap(input.fragment), 5,
                                Len(Unwrap(input.fragment)))))
              => TheKey = Ok(CommentReplyKeyOf(ReplyToOf(
                     IF input.first = sView THEN "ViewComment"
                     ELSE "JournalComment",
                     U64Of(SubSeq(Unwrap(input.fragment), 5,
                                  Len(Unwrap(input.fragment)))))))
        /\ (/\ input.family = "replyto"
            /\ input.kind \in {sSubmission, sJournal}
            /\ IsU64Text(input.id)
            /\ input.slash)
              => TheKey = Ok(CommentReplyKeyOf(ReplyToOf(
                     IF input.kind = sSubmission THEN "ViewComment"
                     ELSE "JournalComment",
                     U64Of(input.id))))

\* the fragment form of a comment on a view page, on another host
C6_Witness ==
    /\ Parsed("CommentReplyKey")
    /\ input.family = "page"
    /\ input.origin = OtherOrigin
    /\ input.first = sView
    /\ input.id = <<"7">>
    /\ input.fragment = Some(sCid \o <<"7", "0">>)
    /\ TheKey = Ok(CommentReplyKeyOf(ReplyToOf("ViewComment", 70)))

\* the fragment is "cid:" followed by an unsigned integer
IsCidFragment(f) ==
    StartsWith(f, sCid) /\ IsU64Text(SubSeq(f, 5, Len(f)))

\* C7: for /view/<id>/ or /journal/<id>/ with a fragment that is not cid:
\* followed by an unsigned integer, making a CommentReplyKey fails; the
\* result is never the View(id) or Journal(id) of the URL without fragment.
C7_BadFragmentFails ==
    (/\ Parsed("CommentReplyKey")
     /\ input.family = "page"
     /\ input.first \in {sView, sJournal}
     /\ input.fragment # None
     /\ ~IsCidFragment(Unwrap(input.fragment)))
        => ~TheKey.ok

\* /view/7/#x, whose id alone would give View(7), failed
C7_Witness ==
    /\ Parsed("CommentReplyKey")
    /\ input.family = "page"
    /\ input.first = sView
    /\ input.id = <<"7">>
    /\ input.fragment = Some(<<"x">>)
    /\ TheKey = Err("MissingSegment")

\* C8 as stated: a ViewKey is made only from a URL whose path is exactly
\* /view/<id>/ with <id> a u64; a path with further segments after the id is
\* rejected.
C8_ViewKeyExactPath ==
    (Parsed("ViewKey") /\ TheKey.ok)
        => /\ input.family = "page"
           /\ input.first = sView
           /\ IsU64Text(input.id)
           /\ ~input.extra

\* C8 as amended: a ViewKey is made exactly when the first path segment is
\* view and the second is a u64, whatever follows the id; a first segment
\* other than view, or no second segment, fails with MissingSegment; a second
\* segment that is no u64 fails with ParseIntError; a failure carries no key.
C8_ViewKeyPrefix ==
    Parsed("ViewKey") =>
        LET segs == PathSegments(TheUrl)
        IN  /\ TheKey.ok <=>
                   /\ Len(segs) >= 2
                   /\ segs[1] = sView
                   /\ IsU64Text(segs[2])
            /\ TheKey.ok => TheKey.val = ViewKeyOf(U64Of(segs[2]))
            /\ (segs[1] # sView \/ Len(segs) < 2) =>
                   TheKey = Err("MissingSegment")
            /\ (Len(segs) >= 2 /\ segs[1] = sView /\ ~IsU64Text(segs[2])) =>
                   TheKey = Err("ParseIntError")
            /\ (input.family = "page" /\ input.first = sView
                /\ IsU64Text(input.id)) =>
                   TheKey = Ok(ViewKeyOf(U64Of(input.id)))
            /\ ~TheKey.ok => "val" \notin DOMAIN TheKey

\* /view/7/x/ gave ViewKey 7
C8_Witness ==
    /\ Parsed("ViewKey")
    /\ input.family = "page"
    /\ input.first = sView
    /\ input.id = <<"7">>
    /\ input.extra
    /\ TheKey = Ok(ViewKeyOf(7))

-----------------------------------------------------------------------------
(* Properties of the markup simplifier.                                    *)

\* the element a piece opens, for the open tags that have a closing form
OpenedBy(piece) ==
    CASE piece \in {"<strong>", "<strong class=\"quote-name\">"} -> "strong"
      [] piece = "<em>" -> "em"
      [] piece = "<u>" -> "u"
      [] piece = "<s>" -> "s"
      [] piece \in {"<div align=\"left\">", "<div align=\"center\">",
                    "<div align=\"right\">"} -> "div"
      [] piece = "<blockquote class=\"quote\">" -> "blockquote"
      [] piece = "<font color=\"" -> "font"
      [] piece \in {"<a>", "<a href=\""} -> "a"
      [] OTHER -> ""

\* the element a piece closes
ClosedBy(piece) ==
    CASE piece = "</strong>" -> "strong"
      [] piece = "</em>" -> "em"
      [] piece = "</u>" -> "u"
      [] piece = "</s>" -> "s"
      [] piece = "</div>" -> "div"
      [] piece = "</blockquote>" -> "blockquote"
      [] piece = "</font>" -> "font"
      [] piece = "</a>" -> "a"
      [] OTHER -> ""

\* reading out from piece i with the open elements in stack (innermost
\* last): every close tag closes the innermost open element, and at the end
\* none is open
RECURSIVE BalancedFrom(_, _, _)
BalancedFrom(out, i, stack) ==
    IF i > Len(out) THEN stack = <<>>
    ELSE IF OpenedBy(out[i]) # ""
         THEN BalancedFrom(out, i + 1, Append(stack, OpenedBy(out[i])))
    ELSE IF ClosedBy(out[i]) # ""
         THEN /\ stack # <<>>
              /\ stack[Len(stack)] = ClosedBy(out[i])
              /\ BalancedFrom(out, i + 1, SubSeq(stack, 1, Len(stack) - 1))
    ELSE BalancedFrom(out, i + 1, stack)

Balanced(out) == BalancedFrom(out, 1, <<>>)

\* C9: for every element subtree passed to simplify the output is balanced:
\* every open tag that has a closing form is closed by its close tag,
\* innermost first, and no close tag comes without its open tag before it.
C9_OutputBalanced == done => Balanced(output)

\* the characters that must not reach the output from content as they are
RawSpecials == {"<", ">", "&", "\""}

\* C10: no "<", ">", "&" or quotation mark of the document's content (text,
\* resolved link and image URLs, colour values) is in the output as it is:
\* each piece of the output is a fixed tag text, an entity or another
\* character.
C10_ContentEscaped ==
    \A i \in 1..Len(output) : output[i] \notin RawSpecials

\* a finished run over a link with text in it: the link's URL and the text
\* are in the output, escaped
C10_Witness ==
    /\ done
    /\ \E i \in 1..Len(output) :
        /\ output[i] = "<a href=\""
        /\ \E j \in (i + 1)..Len(output) :
            /\ output[j] = "&amp;"
            /\ \E k \in (j + 1)..Len(output) : output[k] = "&lt;"

-----------------------------------------------------------------------------
(* Properties of the comment decoder.                                      *)

\* the decoder's calls have returned
WidthDecoded == pc \in {"width", "extracted"}
Extracted == pc = "extracted"

TheStyle == Attr(page.elem, "style")
TheResult == Unwrap(result)

\* the value of a text of digits
RECURSIVE DecimalValue(_, _)
DecimalValue(t, acc) ==
    IF t = <<>> THEN acc
    ELSE DecimalValue(Tail(t), acc * 10 + DigitValue(Head(t)))

AllDigits(t) == t # <<>> /\ \A i \in 1..Len(t) : IsDigit(t[i])

WithoutPlus(t) == IF t # <<>> /\ Head(t) = "+" THEN Tail(t) ELSE t

\* a text the FromStr of an unsigned integer type with the maximum max
\* accepts, and its value
IsUnsignedText(t, max) ==
    AllDigits(WithoutPlus(t)) /\ DecimalValue(WithoutPlus(t), 0) <= max

UnsignedValue(t) == DecimalValue(WithoutPlus(t), 0)

\* "width:", then a payload, then "%", 8 to 10 characters in all
FramedStyle(s) ==
    /\ Len(s) \in 8..10
    /\ SubSeq(s, 1, 6) = sWidth
    /\ s[Len(s)] = "%"

WidthPayload(s) == SubSeq(s, 7, Len(s) - 1)

\* exactly "width:", 1 to 3 digits, "%"
ConformingStyle(s) == FramedStyle(s) /\ AllDigits(WidthPayload(s))

\* C11 as stated: every style that is not "width:", 1 to 3 digits and "%" is
\* rejected with InvalidDepth, and a missing style with MissingAttribute.
C11_NonConformingInvalidDepth ==
    WidthDecoded =>
        /\ TheStyle = None => fields.width = Err("MissingAttribute")
        /\ TheStyle # None /\ ~ConformingStyle(Unwrap(TheStyle))
              => fields.width = Err("InvalidDepth")

\* C11: a missing style is rejected with MissingAttribute; a style without
\* the prefix "width:", without the suffix "%" or of a length below 8 or
\* above 10 is rejected with InvalidDepth; a style of that frame is rejected
\* with InvalidInteger unless its payload is a text u8::from_str accepts (an
\* optional "+", digits, at most 255), and then the width is that value; a
\* rejected style makes the extraction fail with the same error, so that no
\* depth is decoded from it.
C11_WidthDecoding ==
    WidthDecoded =>
        /\ TheStyle = None => fields.width = Err("MissingAttribute")
        /\ TheStyle # None /\ ~FramedStyle(Unwrap(TheStyle))
              => fields.width = Err("InvalidDepth")
        /\ TheStyle # None /\ FramedStyle(Unwrap(TheStyle))
              => fields.width =
                     IF IsUnsignedText(WidthPayload(Unwrap(TheStyle)), U8Max)
                     THEN Ok(UnsignedValue(WidthPayload(Unwrap(TheStyle))))
                     ELSE Err("InvalidInteger")
        /\ Extracted /\ ~fields.width.ok => TheResult = fields.width

\* a style of 11 characters with the prefix and the suffix was rejected with
\* InvalidDepth, and so was the comment
C11_Witness ==
    /\ Extracted
    /\ TheStyle # None
    /\ Len(Unwrap(TheStyle)) = 11
    /\ StartsWith(Unwrap(TheStyle), sWidth)
    /\ EndsWith(Unwrap(TheStyle), <<"%">>)
    /\ fields.width = Err("InvalidDepth")
    /\ TheResult = Err("InvalidDepth")

\* the style encodes a width, and the width it encodes
EncodesWidth ==
    /\ TheStyle # None
    /\ FramedStyle(Unwrap(TheStyle))
    /\ IsUnsignedText(WidthPayload(Unwrap(TheStyle)), U8Max)

EncodedWidth == UnsignedValue(WidthPayload(Unwrap(TheStyle)))

\* C12: a comment whose style encodes a width w of 0 to 100 and that is
\* extracted has the depth (100 - w) / 3, rounded down, on view pages and on
\* journal pages: 100 gives 0 and 97 gives 1.
C12_DepthFormula ==
    Extracted /\ EncodesWidth /\ EncodedWidth \in 0..100 /\ TheResult.ok =>
        /\ TheResult.val.depth = (100 - EncodedWidth) \div 3
        /\ EncodedWidth = 100 => TheResult.val.depth = 0
        /\ EncodedWidth = 97 => TheResult.val.depth = 1

\* a comment of a journal page with the width 97 was extracted with depth 1
C12_Witness ==
    /\ Extracted
    /\ page.root = "Journal"
    /\ EncodesWidth
    /\ EncodedWidth = 97
    /\ TheResult.ok
    /\ TheResult.val.depth = 1

\* the comment element has an id the decoder can read: the first anchor
\* whose id starts with "cid:" has an unsigned integer after it
FirstCidAnchor ==
    LET found == {i \in 1..Len(page.elem.anchors) :
                     /\ "id" \in DOMAIN page.elem.anchors[i].attrs
                     /\ StartsWith(page.elem.anchors[i].attrs["id"], sCid)}
    IN  IF found = {} THEN None
        ELSE Some(page.elem.anchors[
                 CHOOSE i \in found : \A j \in found : i <= j].attrs["id"])

DecodableId ==
    /\ FirstCidAnchor # None
    /\ IsUnsignedText(SubSeq(Unwrap(FirstCidAnchor), 5,
                             Len(Unwrap(FirstCidAnchor))), U64Max)

TheId ==
    UnsignedValue(SubSeq(Unwrap(FirstCidAnchor), 5, Len(Unwrap(FirstCidAnchor))))

\* the thread root of an extracted comment is the page it was read from
RootIsSet ==
    /\ page.root = "View" => TheResult.val.view_id = page.id
    /\ page.root = "Journal"
          => TheResult.val.root = [kind |-> "Journal", id |-> page.id]

\* C13: a comment element with a decodable depth and id and no body element
\* is extracted as a hidden comment: id, depth and thread root are set and
\* the payload is None, whatever else the element lacks.
C13_HiddenComment ==
    /\ Extracted
    /\ EncodesWidth
    /\ EncodedWidth \in 0..100
    /\ DecodableId
    /\ page.elem.bodies = <<>>
    => /\ TheResult.ok
       /\ TheResult.val.comment = None
       /\ TheResult.val.comment_id = TheId
       /\ TheResult.val.depth = (100 - EncodedWidth) \div 3
       /\ RootIsSet

\* a comment without body, date, avatar and name was extracted as hidden
C13_Witness ==
    /\ Extracted
    /\ page.elem.bodies = <<>>
    /\ page.elem.dates = <<>>
    /\ page.elem.avatars = <<>>
    /\ page.elem.names = <<>>
    /\ TheResult.ok
    /\ TheResult.val.comment = None
    /\ TheResult.val.comment_id = 7

\* the href of the first parent anchor is "#cid:" and an unsigned integer
ParentHrefReadable ==
    /\ "href" \in DOMAIN page.elem.parents[1].attrs
    /\ StartsWith(page.elem.parents[1].attrs["href"], sHashCid)
    /\ IsUnsignedText(SubSeq(page.elem.parents[1].attrs["href"], 6,
                             Len(page.elem.parents[1].attrs["href"])), U64Max)

\* C14: of a comment element with a body, the extracted comment has the
\* parent id None exactly when the element has no parent anchor, and
\* otherwise the integer after "#cid:" of the anchor's href; an anchor with
\* no href, with another prefix or with no integer after it makes the
\* extraction fail.
C14_ParentId ==
    Extracted /\ page.elem.bodies # <<>> =>
        /\ TheResult.ok =>
              /\ TheResult.val.comment # None
              /\ Unwrap(TheResult.val.comment).parent_id = None
                     <=> page.elem.parents = <<>>
              /\ page.elem.parents # <<>> =>
                    Unwrap(TheResult.val.comment).parent_id =
                        Some(UnsignedValue(
                            SubSeq(page.elem.parents[1].attrs["href"], 6,
                                   Len(page.elem.parents[1].attrs["href"]))))
        /\ page.elem.parents # <<>> /\ ~ParentHrefReadable => ~TheResult.ok

\* a comment of a view page with a body and the parent anchor "#cid:5" was
\* extracted with the parent id 5
C14_Witness ==
    /\ Extracted
    /\ page.elem.bodies # <<>>
    /\ page.elem.parents # <<>>
    /\ page.root = "View"
    /\ TheResult.ok
    /\ Unwrap(TheResult.val.comment).parent_id = Some(5)

-----------------------------------------------------------------------------
(* Properties of the view and journal pages.                               *)

TheRecord == Unwrap(result).val
Returned == pc # "start" /\ Unwrap(result).ok
ViewParsed == page.resource = "View" /\ pc # "start"
JournalParsed == page.resource = "Journal" /\ pc # "start"

HasMarker == page.doc.mature # <<>>

\* no img#submissionImg of the document carries one of the two attributes
NoImageData ==
    \A i \in 1..Len(page.doc.subimg) :
        /\ Attr(page.doc.subimg[i], "data-fullview-src") = None
        /\ Attr(page.doc.subimg[i], "data-preview-src") = None

\* C15: a view document with the gate marker #pageid-matureimage-error and
\* without the data-fullview-src and data-preview-src attributes makes
\* View::from_html return the gate error Nsfw, whatever else the document and
\* the URL hold.
C15_GatedNeverStructural ==
    (ViewParsed /\ HasMarker /\ NoImageData) => Unwrap(result) = Err("Nsfw")

HasFav == AttrStartsWith(page.doc.favnav, "href", sFavPrefix) # <<>>
HasUnfav == AttrStartsWith(page.doc.favnav, "href", sUnfavPrefix) # <<>>

\* what from_html returns for the page without the links of .favorite-nav
WithoutFavLinks ==
    ViewFromHtml(page.build, page.url, [page.doc EXCEPT !.favnav = <<>>])

\* C16: a returned View has faved = Some(false) where only a /fav/ link is
\* on the page and Some(true) where only an /unfav/ link is; with neither
\* link faved is None, no FavKey is to be had and the page parses as it does
\* without the links; with both links from_html aborts wherever the rest of
\* the page parses, and returns no ParseError for them. In every returned
\* View faved is Some exactly when FavKey::try_from(&view) succeeds.
C16_FavouriteState ==
    ViewParsed =>
        /\ Unwrap(result).ok =>
            /\ (HasFav /\ ~HasUnfav) => ViewFaved(TheRecord) = Some(FALSE)
            /\ (~HasFav /\ HasUnfav) => ViewFaved(TheRecord) = Some(TRUE)
            /\ ~(HasFav /\ HasUnfav)
            /\ (ViewFaved(TheRecord) # None)
                   <=> FavKeyTryFromView(TheRecord).ok
        /\ (~HasFav /\ ~HasUnfav) =>
            /\ Unwrap(result) = WithoutFavLinks
            /\ Unwrap(result).ok =>
                /\ ViewFaved(TheRecord) = None
                /\ FavKeyTryFromView(TheRecord) = Err("UnauthenticatedError")
        /\ (HasFav /\ HasUnfav /\ WithoutFavLinks.ok) =>
               Unwrap(result) = Panicked
        /\ pc = "keyed" => fields.fav_key = FavKeyTryFromView(TheRecord)

C16_Witness ==
    /\ ViewParsed
    /\ pc = "keyed"
    /\ HasUnfav
    /\ ~HasFav
    /\ ViewFaved(TheRecord) = Some(TRUE)
    /\ fields.fav_key.ok

\* the banner from_html keeps for the matches of a banner's selector
ExpectedBanner(matches) ==
    IF matches = <<>> THEN None ELSE Some(Simplify(page.url, matches[1]))

\* C19: header() of a Journal is None iff the page has no .journal-header and
\* else its simplified markup, footer() is None iff the page has no
\* .journal-footer and else the footer's simplified markup, neither absence
\* is an error; a page at a journal URL without its .journal-content or its
\* h2.journal-title fails with MissingElement.
C19_Banners ==
    JournalParsed =>
        /\ pc = "read" =>
            /\ fields.header = ExpectedBanner(page.doc.header)
            /\ fields.footer = ExpectedBanner(page.doc.footer)
        /\ (/\ JournalIdOfUrl(page.url).ok
            /\ (page.doc.content = <<>> \/ page.doc.title = <<>>)) =>
               Unwrap(result) = Err("MissingElement")

NCommentsOf(r) ==
    IF page.resource = "View" THEN ViewNCommentsOf(r)
    ELSE JournalNCommentsOf(r)

CommentsOf(r) ==
    IF page.resource = "View" THEN ViewCommentsOf(r) ELSE JournalCommentsOf(r)

\* the number written in the page's comment count element
DisplayedCount == UnsignedValue(Trim(page.doc.n_comments[1].texts[1]))

\* C20 as stated: on every View and Journal that from_html returns,
\* n_comments() equals the length of comments().
C20_CountConsistency ==
    Returned => NCommentsOf(TheRecord) = Len(CommentsOf(TheRecord))

\* C20: on every View and Journal that from_html returns, n_comments() is the
\* number written in the page's comment count element and comments() has one
\* entry for each comment container of the page, in the page's order; the
\* two agree exactly when the page's count is the number of its containers.
C20_CountsAsDisplayed ==
    Returned =>
        /\ NCommentsOf(TheRecord) = DisplayedCount
        /\ Len(CommentsOf(TheRecord)) = Len(page.doc.comments)
        /\ \A i \in 1..Len(page.doc.comments) :
               CommentsOf(TheRecord)[i].comment_id
                   = CommentId(page.doc.comments[i]).val
        /\ (NCommentsOf(TheRecord) = Len(CommentsOf(TheRecord)))
               <=> (DisplayedCount = Len(page.doc.comments))

C20_Witness ==
    /\ Returned
    /\ page.resource = "Journal"
    /\ NCommentsOf(TheRecord) = 0
    /\ Len(CommentsOf(TheRecord)) = 1

-----------------------------------------------------------------------------
(* Properties of the submissions listing.                                  *)

ListingParsed == pc = "parsed"
TheListing == Unwrap(result).val
TheFigures == page.doc.figures
TheEntries == SubmissionsScript(page.doc).val

\* the class, the id and the preview of the figure can be read
FigureReadable(f) ==
    /\ ResourcesAttr(f, "class").ok
    /\ FigureRating(ResourcesAttr(f, "class").val).ok
    /\ FigureViewId(f).ok
    /\ JoinedAttr(page.url, f.imgs, "src").ok

\* the JSON object has an entry whose key names the id
HasEntry(id) ==
    \E j \in 1..Len(TheEntries) : ParseU64(TheEntries[j].key) = Ok(id)

\* a readable figure of the page has no entry of its own: none of its id, or
\* a figure before it has the same id
FigureWithoutEntry ==
    \E i \in 1..Len(TheFigures) :
        /\ \A k \in 1..i : FigureReadable(TheFigures[k])
        /\ \/ ~HasEntry(FigureViewId(TheFigures[i]).val)
           \/ \E k \in 1..(i - 1) :
                  FigureViewId(TheFigures[k]) = FigureViewId(TheFigures[i])

\* the page parses once its figures are taken away
ParsesWithoutFigures ==
    \A ds \in DescriptionsOf(page.doc) :
        SubmissionsFromHtml(page.url, [page.doc EXCEPT !.figures = <<>>], ds).ok

\* C17: a Submissions that from_html returns has one item for each gallery
\* figure, in the figures' order, with the figure's id and the title of a
\* JSON entry of that id, and no two figures share an id; where the rest of
\* the page parses and a readable figure has no entry of its own, from_html
\* aborts, and it never returns the items without that figure.
C17_ListingConsistency ==
    ListingParsed =>
        /\ Unwrap(result).ok =>
            /\ Len(TheListing.items) = Len(TheFigures)
            /\ \A i \in 1..Len(TheFigures) :
                /\ Ok(TheListing.items[i].view_id) = FigureViewId(TheFigures[i])
                /\ \E j \in 1..Len(TheEntries) :
                    /\ ParseU64(TheEntries[j].key)
                           = Ok(TheListing.items[i].view_id)
                    /\ TheListing.items[i].title = TheEntries[j].info.title
                /\ \A k \in 1..(i - 1) :
                       TheListing.items[k].view_id # TheListing.items[i].view_id
        /\ (ParsesWithoutFigures /\ FigureWithoutEntry) =>
               Unwrap(result) = Panicked

C17_Witness ==
    /\ ListingParsed
    /\ Unwrap(result).ok
    /\ Len(TheFigures) = 2
    /\ TheListing.items[1].view_id = 9
    /\ TheListing.items[1].title = <<"B">>
    /\ TheListing.items[2].view_id = 7

\* the key the first link of a direction names
LinkKey(links) ==
    SubmissionsKeyTryFrom(
        UrlParse(<<Origin>> \o Unwrap(Attr(links[1], "href"))).val)

\* the cursor of a direction whose links are all readable
ExpectedCursor(links) ==
    IF links = <<>> THEN None ELSE Some(LinkKey(links).val)

\* the direction has a link, and it names no listing
BrokenLink(links) == links # <<>> /\ ~LinkKey(links).ok

\* the page parses once its buttons are taken away
ParsesWithoutButtons ==
    \A ds \in DescriptionsOf(page.doc) :
        SubmissionsFromHtml(page.url, [page.doc EXCEPT !.buttons = <<>>], ds).ok

\* C18: in a Submissions that from_html returns prev is None exactly when no
\* a.button.prev link to a listing cursor is on the page and next exactly
\* when no other a.button link to one is, each cursor is the key of its own
\* first link whatever the other direction holds, and a page whose links
\* are absent or valid parses wherever it parses without them; a link that
\* is there and names no submissions listing makes from_html return
\* IncorrectUrl.
C18_IndependentCursors ==
    /\ pc # "start" =>
        /\ (fields.prev_res = Err("MissingElement"))
               <=> (PrevLinks(page.doc) = <<>>)
        /\ (fields.next_res = Err("MissingElement"))
               <=> (NextLinks(page.doc) = <<>>)
    /\ ListingParsed =>
        /\ Unwrap(result).ok =>
            /\ (TheListing.prev = None) <=> (PrevLinks(page.doc) = <<>>)
            /\ (TheListing.next = None) <=> (NextLinks(page.doc) = <<>>)
            /\ TheListing.prev = ExpectedCursor(PrevLinks(page.doc))
            /\ TheListing.next = ExpectedCursor(NextLinks(page.doc))
        /\ (/\ ParsesWithoutButtons
            /\ ~BrokenLink(PrevLinks(page.doc))
            /\ ~BrokenLink(NextLinks(page.doc))) => Unwrap(result).ok
        /\ (BrokenLink(PrevLinks(page.doc)) \/ BrokenLink(NextLinks(page.doc)))
               => Unwrap(result) = Err("IncorrectUrl")

C18_Witness ==
    /\ ListingParsed
    /\ Unwrap(result).ok
    /\ PrevLinks(page.doc) = <<>>
    /\ TheListing.prev = None
    /\ NextLinks(page.doc) # <<>>
    /\ TheListing.next = Some(SubmissionsKeyOf("Descending", Some(7)))

-----------------------------------------------------------------------------
(* Properties of the depth and of the text of a comment.                   *)

\* C29: for every style the width decoder accepts, the subtraction of the
\* depth computation (100 - width) / 3 does not underflow: the extraction
\* does not abort, and every decoded depth lies in 0..33.
C29_DepthInRange ==
    Extracted /\ fields.width.ok =>
        /\ TheResult # Panicked
        /\ TheResult.ok => TheResult.val.depth \in 0..33

\* the characters of a text whose escapes are single pieces
RECURSIVE Characters(_)
Characters(t) ==
    IF t = <<>> THEN <<>>
    ELSE (CASE Head(t) = "&quot;" -> <<"&", "q", "u", "o", "t", ";">>
            [] Head(t) = "&amp;" -> <<"&", "a", "m", "p", ";">>
            [] Head(t) = "&#x27;" -> <<"&", "#", "x", "2", "7", ";">>
            [] Head(t) = "&lt;" -> <<"&", "l", "t", ";">>
            [] Head(t) = "&gt;" -> <<"&", "g", "t", ";">>
            [] OTHER -> <<Head(t)>>)
         \o Characters(Tail(t))

\* the comment has a body, and was extracted with it
HasBody == page.elem.bodies # <<>>
TheBody == Head(page.elem.bodies)
TheComment == Unwrap(TheResult.val.comment)

\* C24: the text of a comment that has a body is the output of simplify for
\* the body element, character for character, on view pages and on journal
\* pages; the two decoders return the same text for the same element.
C24_TextIsSimplified ==
    Extracted /\ HasBody /\ TheResult.ok =>
        /\ TheResult.val.comment # None
        /\ Characters(TheComment.text)
               = Characters(Simplify(page.url, TheBody))
        /\ Characters(TheComment.text)
               = Characters(Unwrap(CommentContainerExtract(
                     page.build, page.url, [kind |-> "Journal", id |-> page.id],
                     page.elem).val.comment).text)

-----------------------------------------------------------------------------
(* Properties of the page assemblers as functions.                         *)

\* C21: from_html is total: for every base URL and every document the call
\* returns, with a complete record or with a ParseError, and never aborts.
C21_AssemblersTotal ==
    (ViewParsed \/ JournalParsed) => Unwrap(result) # Panicked

-----------------------------------------------------------------------------
(* Properties of the class table of the simplifier.                        *)

\* the entries of the class table whose class the element has
TableEntries(elem) ==
    {i \in 1..Len(BBCODE_CLASSES) : elem.classes \cap {BBCODE_CLASSES[i][1]} # {}}

\* the entry that comes first in the table
EarliestEntry(elem) ==
    CHOOSE i \in TableEntries(elem) : \A j \in TableEntries(elem) : i <= j

\* the style is "color: ", a value and ";"
ColourStyled(elem) ==
    /\ "style" \in DOMAIN elem.attrs
    /\ Len(elem.attrs.style) >= Len(sColorPrefix) + 1
    /\ SubSeq(elem.attrs.style, 1, Len(sColorPrefix)) = sColorPrefix
    /\ elem.attrs.style[Len(elem.attrs.style)] = ";"

FontPieces == {"<font color=\"", "</font>"}

\* what the step of the traversal appended to the output
Appended == SubSeq(output', Len(output) + 1, Len(output'))

\* the step passed an edge of a class-driven element
PassedClassDriven ==
    /\ edge' # edge
    /\ doc[Unwrap(edge').node].node.kind = "Element"
    /\ doc[Unwrap(edge').node].node.name \in ClassDrivenTags

PassedElement == doc[Unwrap(edge').node].node
PassedOpen == Unwrap(edge').kind = "Open"

\* C23: at the open and at the close edge of a class-driven element the
\* simplifier emits the tag of the first entry, in table order, whose class
\* the element has, and no font tag; only where the element has no class of
\* the table and is a div or a span, a style of the form "color: <value>;"
\* makes it emit the font tags; otherwise it emits nothing.
C23_TableOrderFirst ==
    [][PassedClassDriven =>
        IF TableEntries(PassedElement) # {}
        THEN /\ PassedOpen =>
                  Appended = <<BBCODE_CLASSES[EarliestEntry(PassedElement)][2]>>
             /\ ~PassedOpen =>
                  Appended = BBCODE_CLASSES[EarliestEntry(PassedElement)][3]
             /\ \A i \in 1..Len(Appended) : Appended[i] \notin FontPieces
        ELSE IF PassedElement.name \in {"div", "span"}
                /\ ColourStyled(PassedElement)
        THEN /\ PassedOpen =>
                  /\ Head(Appended) = "<font color=\""
                  /\ Appended[Len(Appended)] = "\">"
             /\ ~PassedOpen => Appended = <<"</font>">>
        ELSE Appended = <<>>]_vars

\* a span with the classes bbcode_quote and bbcode_quote_name and a colour
\* style, below the root, was simplified to the quote's tags alone
C23_Witness ==
    /\ done
    /\ Len(doc) = 2
    /\ doc[2].node.kind = "Element"
    /\ {"bbcode_quote", "bbcode_quote_name"} \subseteq doc[2].node.classes
    /\ ColourStyled(doc[2].node)
    /\ output = <<"<blockquote class=\"quote\">", "</blockquote>">>

-----------------------------------------------------------------------------
(* The preview URL of a submission (src/src/resources.rs).                 *)
(*                                                                         *)
(* A Submission is built by the page assemblers from the page's preview    *)
(* URL: cdn and created are what Submission::parse_url returns for it.     *)

PreviewSizes == {"Xxxs", "Xxs", "Xs", "S", "M", "L", "Xl", "Xxl", "Xxxl"}

\* let pixels = match sz
PreviewPixels(sz) ==
    CASE sz = "Xxxl" -> 600
      [] sz = "Xxl" -> 400
      [] sz = "Xl" -> 300
      [] sz = "L" -> 250
      [] sz = "M" -> 200
      [] sz = "S" -> 150
      [] sz = "Xs" -> 120
      [] sz = "Xxs" -> 100
      [] sz = "Xxxs" -> 50

\* format!("/{}@{}-{}.jpg", self.view_id, pixels, self.created)
PreviewPath(s, sz) ==
    <<"/">> \o FormatU64(s.view_id) \o <<"@">>
    \o FormatU64(PreviewPixels(sz)) \o <<"-">> \o FormatU64(s.created)
    \o <<".", "j", "p", "g">>

\* Submission::preview: self.cdn.join(&path).unwrap()
SubmissionPreview(s, sz) ==
    IF UrlJoin(s.cdn, PreviewPath(s, sz)).ok
    THEN Ok(UrlJoin(s.cdn, PreviewPath(s, sz)).val)
    ELSE Panicked

\* the directories and the file names of the page's preview URL
PreviewDirs == {<<>>, <<"d", "/">>, <<"d", "/", "e", "/">>}
PreviewNames ==
    {<<"7", "@", "4", "0", "0", "-", "5", ".", "j", "p", "g">>,
     <<"3", "-", "0", ".", "p">>,
     <<"-", "1", "2">>,
     <<"a", "-", "9", "9", ".", "j">>,
     <<"x">>,
     <<>>}

PreviewCall(u, id, sz) ==
    [resource |-> "Preview", url |-> u, view_id |-> id, sz |-> sz]

InitPreview ==
    /\ \E o \in {Origin, CdnOrigin}, dir \in PreviewDirs, n \in PreviewNames,
          id \in {0, 7, U64Max}, sz \in PreviewSizes :
            page = PreviewCall(<<o, "/">> \o dir \o n, id, sz)
    /\ pc = "start"
    /\ fields = <<>>
    /\ result = None
    /\ KeysIdle
    /\ HtmlIdle
    /\ ClientIdle

\* let (cdn, created) = Submission::parse_url(&preview)?, and the Submission
\* built from them
SubmissionBuildStep ==
    /\ pc = "start"
    /\ fields' = [parsed |-> SubmissionParseUrl(page.url)]
    /\ pc' = "built"
    /\ UNCHANGED <<page, result>>
    /\ UNCHANGED keyVars
    /\ UNCHANGED htmlVars
    /\ UNCHANGED clientVars

\* submission.preview(sz)
SubmissionPreviewStep ==
    /\ pc = "built"
    /\ fields.parsed.ok
    /\ result' = Some(SubmissionPreview(
                          [view_id |-> page.view_id,
                           created |-> fields.parsed.val.created,
                           cdn |-> fields.parsed.val.cdn], page.sz))
    /\ pc' = "derived"
    /\ UNCHANGED <<page, fields>>
    /\ UNCHANGED keyVars
    /\ UNCHANGED htmlVars
    /\ UNCHANGED clientVars

\* Submission::parse_url(&submission.preview(sz))
PreviewParseStep ==
    /\ pc = "derived"
    /\ Unwrap(result).ok
    /\ fields' = [parsed |-> fields.parsed,
                  again |-> SubmissionParseUrl(Unwrap(result).val)]
    /\ pc' = "reparsed"
    /\ UNCHANGED <<page, result>>
    /\ UNCHANGED keyVars
    /\ UNCHANGED htmlVars
    /\ UNCHANGED clientVars

NextPreview ==
    \/ SubmissionBuildStep
    \/ SubmissionPreviewStep
    \/ PreviewParseStep

SpecPreview == InitPreview /\ [][NextPreview]_vars

-----------------------------------------------------------------------------
(* Properties of the preview URL.                                          *)

\* the decimal digits of a number
RECURSIVE Decimal(_)
Decimal(n) ==
    IF n < 10 THEN <<Digits[n + 1]>> ELSE Decimal(n \div 10) \o Decimal(n % 10)

\* the pixels of the sizes, from the smallest
PixelsOfSize ==
    [Xxxs |-> <<"5", "0">>, Xxs |-> <<"1", "0", "0">>,
     Xs |-> <<"1", "2", "0">>, S |-> <<"1", "5", "0">>,
     M |-> <<"2", "0", "0">>, L |-> <<"2", "5", "0">>,
     Xl |-> <<"3", "0", "0">>, Xxl |-> <<"4", "0", "0">>,
     Xxxl |-> <<"6", "0", "0">>]

\* C25: preview(sz) is the origin of the CDN base followed by
\* /<id>@<pixels>-<created>.jpg, with the pixels of the size, and parse_url
\* of that URL recovers the CDN base and the creation epoch of the
\* submission, for every size.
C25_PreviewRoundTrip ==
    /\ pc \in {"derived", "reparsed"} =>
          Unwrap(result)
              = Ok(<<Head(fields.parsed.val.cdn), "/">>
                   \o Decimal(page.view_id) \o <<"@">>
                   \o PixelsOfSize[page.sz] \o <<"-">>
                   \o Decimal(fields.parsed.val.created)
                   \o <<".", "j", "p", "g">>)
    /\ pc = "reparsed" =>
          fields.again = Ok([cdn |-> fields.parsed.val.cdn,
                             created |-> fields.parsed.val.created])

-----------------------------------------------------------------------------
(* The aggregated mailbox (src/src/resources/msg/others.rs).               *)
(*                                                                         *)
(* A mailbox document holds, per group, the items (li) its selector        *)
(* matches: watches, comments (the items of #messages-comments-submission  *)
(* and of #messages-comments-journal, in document order), shouts, journals *)
(* and favorites.  An item holds the candidates of the selectors of its    *)
(* extract: ids (the input of the group), links (its a elements, on which  *)
(* the attribute tests of the selectors are applied), dates (.popup_date), *)
(* imgs (.avatar img), anchors (.avatar a) and names (.info                *)
(* span:first-child).                                                      *)

sViewPrefix == <<"/">> \o sView \o <<"/">>
sJournalPrefix == <<"/">> \o sJournal \o <<"/">>

\* a[href*='#cid:']: the candidates whose href holds "#cid:"
AttrContains(candidates, attribute, infix) ==
    SelectSeq(candidates,
              LAMBDA c : /\ Attr(c, attribute) # None
                         /\ \E i \in 1..Len(Unwrap(Attr(c, attribute))) :
                               StartsWith(SubSeq(Unwrap(Attr(c, attribute)), i,
                                                 Len(Unwrap(Attr(c, attribute)))),
                                          infix))

\* MiniUser::without_avatar(name, slug): the avatar is the slug's file of
\* the avatar host
MiniUserWithoutAvatar(name, slug) ==
    [name |-> name, slug |-> slug,
     avatar |-> <<AvatarOrigin, "/">> \o slug \o <<".", "g", "i", "f">>]

\* the id of a message: the value of the group's input
MsgId(item) ==
    LET id_elem == SelectFirst(item.ids)
    IN  IF ~id_elem.ok THEN id_elem
        ELSE IF ~ResourcesAttr(id_elem.val, "value").ok
        THEN ResourcesAttr(id_elem.val, "value")
        ELSE InvalidInteger(ParseU64(ResourcesAttr(id_elem.val, "value").val))

\* without the "/" at the end, if there is one
StripSlash(t) ==
    IF t # <<>> /\ t[Len(t)] = "/" THEN SubSeq(t, 1, Len(t) - 1) ELSE t

\* the text after the six characters of "/user/" or "/view/", of an href
\* that starts with them and whose last "/" is removed: the slice [6..]
\* panics where nothing but the prefix is there
AfterPrefix(href) ==
    IF Len(StripSlash(href)) < 6 THEN Panicked
    ELSE Ok(SubSeq(StripSlash(href), 7, Len(StripSlash(href))))

\* the author of an item: slug and name of the link a[href^='/user/']
MsgAuthor(slug_elem) ==
    LET slug == AfterPrefix(Unwrap(Attr(slug_elem, "href")))
    IN  IF ~slug.ok THEN slug
        ELSE Ok(MiniUserWithoutAvatar(ResourcesText(slug_elem), slug.val))

\* the date of an item
MsgPosted(item) ==
    IF ~SelectFirst(item.dates).ok THEN SelectFirst(item.dates)
    ELSE ResourcesDatetime(SelectFirst(item.dates).val)

\* the root of a comment message: the number after "cid:" in the fragment
\* of the link a[href*='#cid:']
CommentMsgRootId(base, root_elem) ==
    LET root_url == UrlJoin(base, Unwrap(Attr(root_elem, "href")))
        fragment == Fragment(UrlParse(root_url.val).val)
    IN  IF ~root_url.ok THEN root_url
        ELSE IF fragment = None THEN Err("IncorrectUrl")
        ELSE IF ~StartsWith(Unwrap(fragment), sCid) THEN Err("IncorrectUrl")
        ELSE InvalidInteger(ParseU64(SubSeq(Unwrap(fragment), 5,
                                            Len(Unwrap(fragment)))))

\* the MiniComment of a comment message whose author link is there
CommentMsgComment(base, item, is_journal, comment_id, slug_elem) ==
    LET author == MsgAuthor(slug_elem)
        posted == MsgPosted(item)
        root_elem == SelectFirst(AttrContains(item.links, "href", sHashCid))
        root_id == CommentMsgRootId(base, root_elem.val)
    IN  IF ~author.ok THEN author
        ELSE IF ~posted.ok THEN posted
        ELSE IF ~root_elem.ok THEN root_elem
        ELSE IF ~root_id.ok THEN root_id
        ELSE Ok([comment_id |-> comment_id,
                 is_journal |-> is_journal,
                 comment |->
                     Some([author |-> author.val,
                           title |-> ResourcesText(root_elem.val),
                           root |-> [kind |-> IF is_journal THEN "Journal"
                                              ELSE "View",
                                     id |-> root_id.val],
                           comment_id |-> comment_id,
                           posted |-> posted.val])])

\* CommentMsg::extract where an item without the author link is an error
CommentMsgExtract_Strict(base, item) ==
    LET id_elem == SelectFirst(item.ids)
        name_attr == ResourcesAttr(id_elem.val, "name")
        comment_id == MsgId(item)
        slug_elem == SelectFirst(AttrStartsWith(item.links, "href",
                                                sUserPrefix))
    IN  IF ~id_elem.ok THEN id_elem
        ELSE IF ~name_attr.ok THEN name_attr
        ELSE IF ~comment_id.ok THEN comment_id
        ELSE IF ~slug_elem.ok THEN slug_elem
        ELSE CommentMsgComment(base, item,
                               Contains(name_attr.val, "journals"),
                               comment_id.val, slug_elem.val)

\* CommentMsg::extract
CommentMsgExtract(base, item) ==
    LET id_elem == SelectFirst(item.ids)
        name_attr == ResourcesAttr(id_elem.val, "name")
        comment_id == MsgId(item)
        slug_elem == SelectFirst(AttrStartsWith(item.links, "href",
                                                sUserPrefix))
    IN  IF ~id_elem.ok THEN id_elem
        ELSE IF ~name_attr.ok THEN name_attr
        ELSE IF ~comment_id.ok THEN comment_id
        ELSE IF ~slug_elem.ok
        THEN Ok([comment_id |-> comment_id.val,
                 is_journal |-> Contains(name_attr.val, "journals"),
                 comment |-> None])
        ELSE CommentMsgComment(base, item,
                               Contains(name_attr.val, "journals"),
                               comment_id.val, slug_elem.val)

\* ShoutMsg::extract
ShoutMsgExtract(base, item) ==
    LET shout_id == MsgId(item)
        slug_elem == SelectFirst(AttrStartsWith(item.links, "href",
                                                sUserPrefix))
        author == MsgAuthor(slug_elem.val)
        posted == MsgPosted(item)
    IN  IF ~shout_id.ok THEN shout_id
        ELSE IF ~slug_elem.ok
        THEN Ok([shout_id |-> shout_id.val, shout |-> None])
        ELSE IF ~author.ok THEN author
        ELSE IF ~posted.ok THEN posted
        ELSE Ok([shout_id |-> shout_id.val,
                 shout |-> Some([author |-> author.val,
                                 posted |-> posted.val])])

\* WatchMsg::extract
WatchMsgExtract(base, item) ==
    LET watch_id == MsgId(item)
        avatar_img == SelectFirst(item.imgs)
        avatar_a == SelectFirst(item.anchors)
        slug_txt == ResourcesAttr(avatar_a.val, "href")
        slug == AfterPrefix(slug_txt.val)
        avatar_src == ResourcesAttr(avatar_img.val, "src")
        avatar == UrlJoin(base, avatar_src.val)
        when == MsgPosted(item)
        name_elem == SelectFirst(item.names)
    IN  IF ~watch_id.ok THEN watch_id
        ELSE IF ~avatar_img.ok THEN avatar_img
        ELSE IF ~avatar_a.ok
        THEN Ok([watch_id |-> watch_id.val, watch |-> None])
        ELSE IF ~slug_txt.ok THEN slug_txt
        ELSE IF ~StartsWith(slug_txt.val, sUserPrefix)
        THEN Err("MissingAttribute")
        ELSE IF ~slug.ok THEN slug
        ELSE IF ~avatar_src.ok THEN avatar_src
        ELSE IF ~avatar.ok THEN avatar
        ELSE IF ~when.ok THEN when
        ELSE IF ~name_elem.ok THEN name_elem
        ELSE Ok([watch_id |-> watch_id.val,
                 watch |-> Some([when |-> when.val,
                                 user |-> [avatar |-> avatar.val,
                                           slug |-> slug.val,
                                           name |-> ResourcesText(
                                                        name_elem.val)]])])

\* MiniJournal::extract
MiniJournalExtract(base, item) ==
    LET journal_id == MsgId(item)
        slug_elem == SelectFirst(AttrStartsWith(item.links, "href",
                                                sUserPrefix))
        author == MsgAuthor(slug_elem.val)
        posted == MsgPosted(item)
        root_elem == SelectFirst(AttrStartsWith(item.links, "href",
                                                sJournalPrefix))
    IN  IF ~journal_id.ok THEN journal_id
        ELSE IF ~slug_elem.ok THEN slug_elem
        ELSE IF ~author.ok THEN author
        ELSE IF ~posted.ok THEN posted
        ELSE IF ~root_elem.ok THEN root_elem
        ELSE Ok([journal_id |-> journal_id.val,
                 author |-> author.val,
                 title |-> ResourcesText(root_elem.val),
                 posted |-> posted.val])

\* the title of a favorite: the link's text without one quotation mark at
\* its start and one at its end
FavoriteTitle(t) ==
    LET rest == IF t # <<>> /\ Head(t) = "\"" THEN Tail(t) ELSE t
    IN  IF rest # <<>> /\ rest[Len(rest)] = "\""
        THEN SubSeq(rest, 1, Len(rest) - 1)
        ELSE rest

\* Favorite::extract
FavoriteExtract(base, item) ==
    LET favorite_id == MsgId(item)
        view_elem == SelectFirst(AttrStartsWith(item.links, "href",
                                                sViewPrefix))
        view_txt == AfterPrefix(Unwrap(Attr(view_elem.val, "href")))
        view_id == InvalidInteger(ParseU64(view_txt.val))
        slug_elem == SelectFirst(AttrStartsWith(item.links, "href",
                                                sUserPrefix))
        author == MsgAuthor(slug_elem.val)
        when == MsgPosted(item)
    IN  IF ~favorite_id.ok THEN favorite_id
        ELSE IF ~view_elem.ok THEN view_elem
        ELSE IF ~view_txt.ok THEN view_txt
        ELSE IF ~view_id.ok THEN view_id
        ELSE IF ~slug_elem.ok THEN slug_elem
        ELSE IF ~author.ok THEN author
        ELSE IF ~when.ok THEN when
        ELSE Ok([user |-> author.val,
                 title |-> FavoriteTitle(ResourcesText(view_elem.val)),
                 favorite_id |-> favorite_id.val,
                 view_id |-> view_id.val,
                 when |-> when.val])

\* extract of the group's message type
MsgExtract(group, base, item) ==
    CASE group = "watches" -> WatchMsgExtract(base, item)
      [] group = "comments" -> CommentMsgExtract(base, item)
      [] group = "shouts" -> ShoutMsgExtract(base, item)
      [] group = "journals" -> MiniJournalExtract(base, item)
      [] group = "favorites" -> FavoriteExtract(base, item)

\* for elem in doc.select(&sel) { list.push(extract(&url, elem)?) }: the
\* messages of the items, up to the first failure
RECURSIVE OthersGroup(_, _, _, _)
OthersGroup(group, base, items, acc) ==
    IF items = <<>> THEN Ok(acc)
    ELSE IF ~MsgExtract(group, base, Head(items)).ok
    THEN MsgExtract(group, base, Head(items))
    ELSE OthersGroup(group, base, Tail(items),
                     Append(acc, MsgExtract(group, base, Head(items)).val))

\* the groups in the order from_html reads them
OthersGroupOrder == <<"watches", "comments", "shouts", "journals", "favorites">>

\* the groups of the document, each read to its end or to its failure
OthersGroups(base, d) ==
    [g \in DOMAIN d |-> OthersGroup(g, base, d[g], <<>>)]

\* Ok(Self { watches, comments, shouts, journals, favorites }), or the
\* failure of the first group that failed
OthersResult(groups) ==
    IF FirstFailure(groups, OthersGroupOrder) = 0
    THEN Ok([g \in DOMAIN groups |-> groups[g].val])
    ELSE groups[OthersGroupOrder[FirstFailure(groups, OthersGroupOrder)]]

\* impl FromHtml for Others
OthersFromHtml(base, d) == OthersResult(OthersGroups(base, d))

\* MiniComment::as_view_key, MiniComment::as_journal_key
MiniCommentAsViewKey(mc) ==
    IF mc.root.kind = "View" THEN Some(ViewKeyOf(mc.root.id)) ELSE None

MiniCommentAsJournalKey(mc) ==
    IF mc.root.kind = "Journal" THEN Some(JournalKeyOf(mc.root.id)) ELSE None

-----------------------------------------------------------------------------
(* The mailbox documents from_html is run on.                              *)

OthersUrl == <<Origin, "/">> \o sMsg \o <<"/", "o", "/">>

MsgItem(ids, links, dates, imgs, anchors, names) ==
    [ids |-> ids, links |-> links, dates |-> dates, imgs |-> imgs,
     anchors |-> anchors, names |-> names]

IdInput(name, value) == Element("input", {}, [name |-> name, value |-> value])
SubmissionInput == IdInput(<<"comments-", "submissions", "[]">>, <<"5">>)
JournalInput == IdInput(<<"comments-", "journals", "[]">>, <<"5">>)
PlainInput == IdInput(<<"ids", "[]">>, <<"5">>)

TextLink(href, t) == TextElement("a", {}, [href |-> href], <<t>>)
UserLink == TextLink(sUserPrefix \o <<"u", "/">>, <<"U">>)
BareUserLink == TextLink(sUserPrefix, <<"U">>)
ThreadLink(prefix, tail) ==
    TextLink(prefix \o <<"9", "/">> \o tail, <<"\"", "T", "\"">>)
sThread == sHashCid \o <<"4">>

\* a comment message as the site writes it, of a journal and of a submission
WholeCommentMsg(in, prefix, tail) ==
    MsgItem(<<in>>, <<UserLink, ThreadLink(prefix, tail)>>, <<GoodDate>>,
            <<>>, <<>>, <<>>)
JournalCommentMsg == WholeCommentMsg(JournalInput, sJournalPrefix, sThread)
ViewCommentMsg == WholeCommentMsg(SubmissionInput, sViewPrefix, sThread)
\* the message of a removed comment: nothing but its input
RemovedMsg(in) == MsgItem(<<in>>, <<>>, <<>>, <<>>, <<>>, <<>>)

CommentItemSamples ==
    {<<>>,
     <<RemovedMsg(SubmissionInput), JournalCommentMsg>>,
     <<ViewCommentMsg>>,
     <<JournalCommentMsg, RemovedMsg(JournalInput)>>,
     <<MsgItem(<<>>, <<UserLink>>, <<GoodDate>>, <<>>, <<>>, <<>>)>>,
     <<MsgItem(<<JournalInput>>, <<UserLink, ThreadLink(sJournalPrefix, sThread)>>,
               <<>>, <<>>, <<>>, <<>>)>>,
     <<MsgItem(<<JournalInput>>, <<UserLink>>, <<GoodDate>>, <<>>, <<>>, <<>>)>>,
     <<WholeCommentMsg(SubmissionInput, sViewPrefix, sHashCid \o <<"x">>)>>,
     <<WholeCommentMsg(SubmissionInput, sViewPrefix,
                       <<"#", "a">> \o sHashCid \o <<"4">>)>>,
     <<MsgItem(<<JournalInput>>, <<BareUserLink>>, <<GoodDate>>, <<>>, <<>>,
               <<>>)>>}

WholeWatch ==
    MsgItem(<<PlainInput>>, <<>>, <<GoodDate>>,
            <<Element("img", {}, [src |-> <<"/", "a">>])>>,
            <<Element("a", {}, [href |-> sUserPrefix \o <<"u", "/">>])>>,
            <<TextOnly("span", {}, <<"U">>)>>)
RemovedWatch ==
    MsgItem(<<PlainInput>>, <<>>, <<>>,
            <<Element("img", {}, [src |-> <<"/", "a">>])>>, <<>>, <<>>)

WatchItemSamples ==
    {<<>>,
     <<WholeWatch, RemovedWatch>>,
     <<RemovedMsg(PlainInput)>>,
     <<[WholeWatch EXCEPT !.names = <<>>]>>}

WholeShout ==
    MsgItem(<<PlainInput>>, <<UserLink>>, <<GoodDate>>, <<>>, <<>>, <<>>)

ShoutItemSamples ==
    {<<>>,
     <<WholeShout, RemovedMsg(PlainInput)>>,
     <<[WholeShout EXCEPT !.dates = <<>>]>>}

WholeMiniJournal ==
    MsgItem(<<PlainInput>>, <<UserLink, ThreadLink(sJournalPrefix, <<>>)>>,
            <<GoodDate>>, <<>>, <<>>, <<>>)

JournalItemSamples ==
    {<<>>, <<WholeMiniJournal>>, <<RemovedMsg(PlainInput)>>}

WholeFavorite ==
    MsgItem(<<PlainInput>>, <<UserLink, ThreadLink(sViewPrefix, <<>>)>>,
            <<GoodDate>>, <<>>, <<>>, <<>>)

FavoriteItemSamples ==
    {<<>>,
     <<WholeFavorite>>,
     <<[WholeFavorite EXCEPT !.links = <<UserLink>>]>>,
     <<[WholeFavorite EXCEPT
            !.links = <<TextLink(sViewPrefix, <<"T">>), UserLink>>]>>}

OthersCall(u, d) == [resource |-> "Others", url |-> u, doc |-> d]

-----------------------------------------------------------------------------
(* Others::from_html as a state machine: the page is parsed, then the keys *)
(* of its comment messages are asked for.                                  *)

InitOthers ==
    /\ \E w \in WatchItemSamples, c \in CommentItemSamples,
          s \in ShoutItemSamples, j \in JournalItemSamples,
          f \in FavoriteItemSamples :
            page = OthersCall(OthersUrl,
                              [watches |-> w, comments |-> c, shouts |-> s,
                               journals |-> j, favorites |-> f])
    /\ pc = "start"
    /\ fields = <<>>
    /\ result = None
    /\ KeysIdle
    /\ HtmlIdle
    /\ ClientIdle

\* Others::from_html(url, &doc)
OthersFromHtmlStep ==
    /\ pc = "start"
    /\ result' = Some(OthersFromHtml(page.url, page.doc))
    /\ pc' = "parsed"
    /\ UNCHANGED <<page, fields>>
    /\ UNCHANGED keyVars
    /\ UNCHANGED htmlVars
    /\ UNCHANGED clientVars

\* msg.comment().map(|c| (c.as_view_key(), c.as_journal_key())) for every
\* message of page.comments()
CommentKeysStep ==
    /\ pc = "parsed"
    /\ Unwrap(result).ok
    /\ fields' = [i \in 1..Len(Unwrap(result).val.comments) |->
                    LET msg == Unwrap(result).val.comments[i]
                    IN  IF msg.comment = None THEN None
                        ELSE Some([view |-> MiniCommentAsViewKey(
                                                Unwrap(msg.comment)),
                                   journal |-> MiniCommentAsJournalKey(
                                                   Unwrap(msg.comment))])]
    /\ pc' = "keyed"
    /\ UNCHANGED <<page, result>>
    /\ UNCHANGED keyVars
    /\ UNCHANGED htmlVars
    /\ UNCHANGED clientVars

NextOthers ==
    \/ OthersFromHtmlStep
    \/ CommentKeysStep

SpecOthers == InitOthers /\ [][NextOthers]_vars

-----------------------------------------------------------------------------
(* Properties of the mailbox.                                              *)

OthersParsed == page.resource = "Others" /\ pc # "start"
TheOthers == Unwrap(result).val
AllGroups == {"watches", "comments", "shouts", "journals", "favorites"}

\* the item has a link of the prefix
HasLinkTo(item, prefix) ==
    \E i \in 1..Len(item.links) :
        /\ "href" \in DOMAIN item.links[i].attrs
        /\ Len(item.links[i].attrs.href) >= Len(prefix)
        /\ SubSeq(item.links[i].attrs.href, 1, Len(prefix)) = prefix

\* the user link of the item is absent: the item is one of a removed message
UserLinkAbsent(g, item) ==
    IF g = "watches" THEN item.anchors = <<>>
    ELSE ~HasLinkTo(item, sUserPrefix)

\* the payload of a message of the groups that keep removed items
Payload(g, m) ==
    CASE g = "watches" -> m.watch
      [] g = "comments" -> m.comment
      [] g = "shouts" -> m.shout

\* an element the extract of the group cannot do without is missing
MissingMandatory(g, item) ==
    \/ item.ids = <<>>
    \/ g = "watches" /\ item.imgs = <<>>
    \/ g = "watches" /\ item.anchors # <<>>
         /\ (item.dates = <<>> \/ item.names = <<>>)
    \/ g \in {"comments", "shouts"} /\ ~UserLinkAbsent(g, item)
         /\ item.dates = <<>>
    \/ g = "comments" /\ ~UserLinkAbsent(g, item)
         /\ AttrContains(item.links, "href", sHashCid) = <<>>
    \/ g \in {"journals", "favorites"}
         /\ (UserLinkAbsent(g, item) \/ item.dates = <<>>)
    \/ g = "journals" /\ ~HasLinkTo(item, sJournalPrefix)
    \/ g = "favorites" /\ ~HasLinkTo(item, sViewPrefix)

\* the items the site writes: whole ones, and removed ones where the group
\* has them
SiteItems(g) ==
    CASE g = "watches" -> {WholeWatch, RemovedWatch}
      [] g = "comments" -> {JournalCommentMsg, ViewCommentMsg,
                            RemovedMsg(SubmissionInput),
                            RemovedMsg(JournalInput)}
      [] g = "shouts" -> {WholeShout, RemovedMsg(PlainInput)}
      [] g = "journals" -> {WholeMiniJournal}
      [] g = "favorites" -> {WholeFavorite}

AsSiteWrites ==
    \A g \in AllGroups : \A i \in 1..Len(page.doc[g]) :
        page.doc[g][i] \in SiteItems(g)

\* C22: each of the five groups is optional on its own: a mailbox of items
\* as the site writes them parses whichever groups are absent, an absent
\* group gives an empty list, and every list holds one message per item of
\* its group; in the watches, comments and shouts groups the message of an
\* item without its user link is kept with the payload None, and that of an
\* item with it has a payload; an item that lacks a mandatory element makes
\* from_html fail.
C22_GroupsOptional ==
    OthersParsed =>
        /\ AsSiteWrites => Unwrap(result).ok
        /\ Unwrap(result).ok =>
              \A g \in AllGroups :
                  /\ Len(TheOthers[g]) = Len(page.doc[g])
                  /\ page.doc[g] = <<>> => TheOthers[g] = <<>>
        /\ Unwrap(result).ok =>
              \A g \in {"watches", "comments", "shouts"} :
                  \A i \in 1..Len(page.doc[g]) :
                      Payload(g, TheOthers[g][i]) = None
                          <=> UserLinkAbsent(g, page.doc[g][i])
        /\ (\E g \in AllGroups : \E i \in 1..Len(page.doc[g]) :
                MissingMandatory(g, page.doc[g][i]))
              => ~Unwrap(result).ok

\* a mailbox without watches, shouts, journals and favorites, whose comments
\* group holds a removed comment and a whole one, was parsed
C22_Witness ==
    /\ OthersParsed
    /\ Unwrap(result).ok
    /\ \A g \in AllGroups \ {"comments"} :
          page.doc[g] = <<>> /\ TheOthers[g] = <<>>
    /\ Len(page.doc.comments) = 2
    /\ UserLinkAbsent("comments", page.doc.comments[1])
    /\ TheOthers.comments[1].comment = None
    /\ TheOthers.comments[2].comment # None

\* the thread link of a comment item, and the page it names
ThreadHref(item) ==
    Head(AttrContains(item.links, "href", sHashCid)).attrs.href

ThreadSegments(item) == Split(Tail(ThreadHref(item)), "/")

\* C30: for a comment message whose thread link is /journal/<j>/#cid:<c> or
\* /view/<v>/#cid:<c>, exactly one of as_journal_key() and as_view_key() is
\* Some, the journal's for a message of the journal group and the view's
\* for one of the submission group, and the key holds the id of the page, j
\* or v.
C30_KeyOfContainingPage ==
    (OthersParsed /\ pc = "keyed") =>
        \A i \in 1..Len(page.doc.comments) :
            fields[i] # None =>
                IF ThreadSegments(page.doc.comments[i])[1] = sJournal
                THEN /\ Unwrap(fields[i]).view = None
                     /\ Unwrap(fields[i]).journal
                            = Some(JournalKeyOf(UnsignedValue(
                                  ThreadSegments(page.doc.comments[i])[2])))
                ELSE /\ Unwrap(fields[i]).journal = None
                     /\ Unwrap(fields[i]).view
                            = Some(ViewKeyOf(UnsignedValue(
                                  ThreadSegments(page.doc.comments[i])[2])))

-----------------------------------------------------------------------------
(* The site header (src/src/resources/header.rs) and the response of a     *)
(* request (src/src/client.rs).                                            *)
(*                                                                         *)
(* The header part of a document holds avatars (img.loggedin_user_avatar,  *)
(* each with the element it lies in as parent), bars (#ddmenu              *)
(* .message-bar-desktop) and notes (the a.notification-container elements  *)
(* of the first bar).  An img of a parsed document always lies in an       *)
(* element, so parent() is never None and ElementRef::wrap succeeds.       *)

\* a + b of two u64 values: with overflow checks a panic, without them the
\* sum modulo 2^64
U64Add(build, a, b) ==
    IF a + b <= U64Max THEN Ok(a + b)
    ELSE IF build = "debug" THEN Panicked
    ELSE Ok((a + b) % (U64Max + 1))

\* Notifications::suffix
NotificationsSuffix(suffix, t) ==
    IF ~EndsWith(t, suffix) THEN None
    ELSE IF ParseU64(Trim(SubSeq(t, 1, Len(t) - Len(suffix)))).ok
    THEN Some(ParseU64(Trim(SubSeq(t, 1, Len(t) - Len(suffix)))).val)
    ELSE None

\* the suffixes in the order of the if-else chain, with their counters
NotificationSuffixes ==
    << <<<<"T", "T">>, "trouble_tickets">>, <<<<"S">>, "submissions">>,
       <<<<"W">>, "watches">>, <<<<"C">>, "comments">>,
       <<<<"F">>, "favorites">>, <<<<"N">>, "notes">>,
       <<<<"J">>, "journals">> >>

\* the first suffix of the chain that gives a number for the text, or 0
NotificationArm(t) ==
    IF \A i \in 1..Len(NotificationSuffixes) :
           NotificationsSuffix(NotificationSuffixes[i][1], t) = None
    THEN 0
    ELSE CHOOSE i \in 1..Len(NotificationSuffixes) :
             /\ NotificationsSuffix(NotificationSuffixes[i][1], t) # None
             /\ \A k \in 1..(i - 1) :
                    NotificationsSuffix(NotificationSuffixes[k][1], t) = None

\* n.<counter> += <number> for the element
NotificationsCount(build, n, t) ==
    LET arm == NotificationArm(t)
        counter == NotificationSuffixes[arm][2]
        sum == U64Add(build, n[counter],
                      Unwrap(NotificationsSuffix(NotificationSuffixes[arm][1],
                                                 t)))
    IN  IF arm = 0 THEN Ok(n)
        ELSE IF ~sum.ok THEN sum
        ELSE Ok([n EXCEPT ![counter] = sum.val])

\* for elem in bar.select(&selector) { .. }
RECURSIVE NotificationsLoop(_, _, _)
NotificationsLoop(build, elems, n) ==
    IF elems = <<>> THEN Ok(n)
    ELSE IF ~NotificationsCount(build, n, ResourcesText(Head(elems))).ok
    THEN NotificationsCount(build, n, ResourcesText(Head(elems)))
    ELSE NotificationsLoop(
             build, Tail(elems),
             NotificationsCount(build, n, ResourcesText(Head(elems))).val)

\* impl FromHtml for Notifications
NotificationsFromHtml(build, h) ==
    IF ~SelectFirst(h.bars).ok THEN SelectFirst(h.bars)
    ELSE NotificationsLoop(build, h.notes,
                           [submissions |-> 0, journals |-> 0, watches |-> 0,
                            comments |-> 0, favorites |-> 0,
                            trouble_tickets |-> 0, notes |-> 0])

\* impl FromHtml for Header; the slice [6..len - 1] panics where the href is
\* "/user/" alone
HeaderFromHtml(build, base, h) ==
    LET avatar_elem == SelectFirst(h.avatars)
        avatar_txt == ResourcesAttr(avatar_elem.val, "src")
        avatar == UrlJoin(base, avatar_txt.val)
        name == ResourcesAttr(avatar_elem.val, "alt")
        slug_txt == ResourcesAttr(avatar_elem.val.parent, "href")
        notifications == NotificationsFromHtml(build, h)
    IN  IF ~avatar_elem.ok THEN avatar_elem
        ELSE IF ~avatar_txt.ok THEN avatar_txt
        ELSE IF ~avatar.ok THEN avatar
        ELSE IF ~name.ok THEN name
        ELSE IF ~slug_txt.ok THEN slug_txt
        ELSE IF ~StartsWith(slug_txt.val, sUserPrefix) THEN Err("IncorrectUrl")
        ELSE IF ~EndsWith(slug_txt.val, <<"/">>) THEN Err("IncorrectUrl")
        ELSE IF Len(slug_txt.val) - 1 < 6 THEN Panicked
        ELSE IF ~notifications.ok THEN notifications
        ELSE Ok([notifications |-> notifications.val,
                 me |-> [avatar |-> avatar.val,
                         name |-> name.val,
                         slug |-> SubSeq(slug_txt.val, 7,
                                         Len(slug_txt.val) - 1)]])

\* V::from_html of the page type V
PageFromHtml(kind, build, base, d) ==
    CASE kind = "View" -> ViewFromHtml(build, base, d)
      [] kind = "Journal" -> JournalFromHtml(build, base, d)
      [] kind = "Others" -> OthersFromHtml(base, d)

\* Result::ok
ResultOk(r) == IF r.ok THEN Some(r.val) ELSE None

\* Ok(Self { header: Header::from_html(..).ok(), page: V::from_html(..)? })
\* of a header extraction that returned
ResponseOf(header_res, page_res) ==
    IF ~page_res.ok THEN page_res
    ELSE Ok([header |-> ResultOk(header_res), page |-> page_res.val])

-----------------------------------------------------------------------------
(* The documents Response::from_html is run on.                            *)

LoggedInAvatar(attrs, parentAttrs) ==
    [kind |-> "Element", name |-> "img", classes |-> {"loggedin_user_avatar"},
     attrs |-> attrs, parent |-> Element("a", {}, parentAttrs)]

sMe == sUserPrefix \o <<"m", "/">>
AvatarAttrs == [src |-> <<"/", "a">>, alt |-> <<"M">>]

AvatarSamplesOfHeader ==
    {<<>>,
     <<LoggedInAvatar(AvatarAttrs, [href |-> sMe])>>,
     <<LoggedInAvatar([alt |-> <<"M">>], [href |-> sMe])>>,
     <<LoggedInAvatar([src |-> <<"/", "a">>], [href |-> sMe])>>,
     <<LoggedInAvatar([src |-> <<"/", "/">>, alt |-> <<"M">>],
                      [href |-> sMe])>>,
     <<LoggedInAvatar(AvatarAttrs, NoAttrs)>>,
     <<LoggedInAvatar(AvatarAttrs, [href |-> <<"/", "g", "/">>])>>,
     <<LoggedInAvatar(AvatarAttrs, [href |-> sUserPrefix \o <<"m">>])>>,
     <<LoggedInAvatar(AvatarAttrs, [href |-> sUserPrefix])>>}

Note(t) == TextOnly("a", {"notification-container"}, t)

NoteSamples ==
    {<<>>,
     <<Note(<<"3", "S">>)>>,
     <<Note(<<"3", "S">>), Note(<<" ", "2", " ", "T", "T">>),
       Note(<<"1", "J">>), Note(<<"4", "S">>)>>,
     <<Note(<<"7", "0", "S">>), Note(<<"7", "0", "S">>)>>,
     <<Note(<<"x", "S">>), Note(<<"2", "W">>), Note(<<"5">>)>>}

BarSamples == {<<>>, <<Element("div", {"message-bar-desktop"}, NoAttrs)>>}

\* the pages below the header: per page type one that parses and others
\* that do not
PageSamples ==
    {[kind |-> "View", url |-> <<Origin, "/">> \o sView \o <<"/", "7", "/">>,
      doc |-> WholeView],
     [kind |-> "View", url |-> <<Origin, "/">> \o sView \o <<"/", "7", "/">>,
      doc |-> Without(WholeView, {"title"})],
     [kind |-> "View", url |-> <<Origin, "/">> \o sView \o <<"/", "7", "/">>,
      doc |-> [WholeView EXCEPT
                   !.favnav = <<FavLink(sFavHref), FavLink(sUnfavHref)>>]],
     [kind |-> "Journal",
      url |-> <<Origin, "/">> \o sJournal \o <<"/", "7", "/">>,
      doc |-> WholeJournal],
     [kind |-> "Journal",
      url |-> <<Origin, "/">> \o sJournal \o <<"/", "7", "/">>,
      doc |-> Without(WholeJournal, {"item"})],
     [kind |-> "Others", url |-> OthersUrl,
      doc |-> [watches |-> <<>>,
               comments |-> <<RemovedMsg(SubmissionInput), JournalCommentMsg>>,
               shouts |-> <<>>, journals |-> <<>>, favorites |-> <<>>]],
     [kind |-> "Others", url |-> OthersUrl,
      doc |-> [watches |-> <<>>, comments |-> <<>>, shouts |-> <<>>,
               journals |-> <<RemovedMsg(PlainInput)>>, favorites |-> <<>>]]}

ResponseCall(b, p, h) ==
    [resource |-> "Response", build |-> b, kind |-> p.kind, url |-> p.url,
     doc |-> p.doc, header |-> h]

-----------------------------------------------------------------------------
(* Response::from_html as a state machine: the header is extracted, then   *)
(* the page.                                                               *)

InitResponse ==
    /\ \E b \in Builds, p \in PageSamples, a \in AvatarSamplesOfHeader,
          bar \in BarSamples, n \in NoteSamples :
            page = ResponseCall(b, p, [avatars |-> a, bars |-> bar,
                                       notes |-> IF bar = <<>> THEN <<>>
                                                 ELSE n])
    /\ pc = "start"
    /\ fields = <<>>
    /\ result = None
    /\ KeysIdle
    /\ HtmlIdle
    /\ ClientIdle

\* header: Header::from_html(url.clone(), html).ok(); a panic of the
\* extraction ends the call
ResponseHeaderStep ==
    /\ pc = "start"
    /\ page.resource = "Response"
    /\ fields' = [header |-> HeaderFromHtml(page.build, page.url, page.header)]
    /\ IF fields'.header = Panicked
       THEN result' = Some(Panicked) /\ pc' = "returned"
       ELSE result' = result /\ pc' = "header"
    /\ UNCHANGED page
    /\ UNCHANGED keyVars
    /\ UNCHANGED htmlVars
    /\ UNCHANGED clientVars

\* page: V::from_html(url, html)?, and the Response
ResponsePageStep ==
    /\ pc = "header"
    /\ page.resource = "Response"
    /\ fields' = [header |-> fields.header,
                  page |-> PageFromHtml(page.kind, page.build, page.url,
                                        page.doc)]
    /\ result' = Some(ResponseOf(fields.header, fields'.page))
    /\ pc' = "returned"
    /\ UNCHANGED page
    /\ UNCHANGED keyVars
    /\ UNCHANGED htmlVars
    /\ UNCHANGED clientVars

NextResponse ==
    \/ ResponseHeaderStep
    \/ ResponsePageStep

SpecResponse == InitResponse /\ [][NextResponse]_vars

-----------------------------------------------------------------------------
(* Properties of the response.                                             *)

ResponseReturned == page.resource = "Response" /\ pc = "returned"

\* V::from_html was called, and what it returned
PageExtracted == "page" \in DOMAIN fields
ThePageResult == fields.page

\* C28: the header of a response is optional for every page type: whatever
\* the extraction of the header fails with, the page is extracted, and the
\* response is Ok exactly when V::from_html is, with header None where the
\* header's extraction failed, and otherwise fails with the error of the
\* page.
C28_HeaderOptional ==
    ResponseReturned =>
        /\ PageExtracted
        /\ Unwrap(result).ok <=> ThePageResult.ok
        /\ ~ThePageResult.ok => Unwrap(result) = ThePageResult
        /\ Unwrap(result).ok /\ ~fields.header.ok
              => Unwrap(result).val.header = None
        /\ Unwrap(result).ok /\ fields.header.ok
              => Unwrap(result).val.header = Some(fields.header.val)


-----------------------------------------------------------------------------
(* The client (src/src/client.rs).                                         *)
(*                                                                         *)
(* Client holds one reqwest::Client behind a tokio RwLock.  Each call of   *)
(* set_cookies, view, submissions, reply, fav or unfav is a task; a task   *)
(* is suspended at every .await, so the steps of the tasks interleave.     *)
(* Here page holds the call of each task, pc its position, fields its      *)
(* locals and result what it returned.  The lock queues its waiters in     *)
(* the order of their requests and serves the head of the queue: a writer  *)
(* when nobody holds the lock, a reader when no writer holds it.           *)

Tasks == {"a", "b", "c"}

RequestOps == {"view", "submissions", "reply", "fav", "unfav"}

\* the operations whose response is parsed into a page
PageOps == {"view", "submissions"}

\* builder.build()? of a builder without, or with, default headers
ReqwestClient(headers) == [whole |-> TRUE, default_headers |-> headers]

\* the place of the client after its old value was dropped and before the
\* new one is moved in
DroppedClient == [whole |-> FALSE]

\* Client::new and Client::with_cookies
ClientNew == ReqwestClient(None)
ClientWithCookies(cookies) == ReqwestClient(Some(cookies))

\* RwLock::new
RwLockNew == [writer |-> None, readers |-> {}, queue |-> <<>>]

\* a call of write() or read() joins the queue of the lock
Enqueue(l, t, mode) ==
    [l EXCEPT !.queue = Append(@, [task |-> t, mode |-> mode])]

\* the head of the queue is a call of t for mode
IsHead(l, t, mode) ==
    /\ l.queue # <<>>
    /\ Head(l.queue) = [task |-> t, mode |-> mode]

\* shared access is granted when no writer holds the lock
CanRead_Always(l) == TRUE
CanRead(l) == l.writer = None

\* exclusive access is granted when nobody holds the lock
CanWrite(l) == l.writer = None /\ l.readers = {}

WriteGranted(l, t) == [l EXCEPT !.queue = Tail(@), !.writer = Some(t)]
ReadGranted(l, t) == [l EXCEPT !.queue = Tail(@), !.readers = @ \cup {t}]

\* the guards are dropped
WriteReleased(l) == [l EXCEPT !.writer = None]
ReadReleased(l, t) == [l EXCEPT !.readers = @ \ {t}]

\* K: TryInto<..Key> of each operation
KeyTypeOfOp(op) ==
    CASE op = "view" -> "ViewKey"
      [] op = "submissions" -> "SubmissionsKey"
      [] op = "reply" -> "CommentReplyKey"
      [] op \in {"fav", "unfav"} -> "FavKey"

\* the variants of RequestError that a call returns
RequestError(kind, source) == [ok |-> FALSE, err |-> kind, source |-> source]

\* key.try_into().context(errors::KeyError) of a Url
ClientKey(op, arg) ==
    LET k == TryFromUrl(KeyTypeOfOp(op), UrlParse(arg).val)
    IN  IF k.ok THEN k ELSE RequestError("KeyError", k.err)

\* Url::from(key); Url::parse(&txt).unwrap() of maybe_fav
ClientUrl(op, k) ==
    IF op \in {"fav", "unfav"}
    THEN IF UrlParse(FavKeyUrlText(k, op = "fav")).ok
         THEN Ok(FavKeyUrlText(k, op = "fav"))
         ELSE Panicked
    ELSE Ok(UrlTextOfKey(k))

\* response.status().is_success()
EnsureSuccess_Lenient(status) == TRUE
EnsureSuccess(status) == status \in 200..299

\* the locals of a task that has not begun
NoLocals ==
    [key |-> None, url |-> None, held |-> None, new |-> None,
     sent_with |-> None, status |-> None, body |-> None, log |-> <<>>]

\* Response::from_html(url, &html).context(errors::Parse) of a header and
\* a page extraction
ClientParse(header_res, page_res) ==
    IF header_res = Panicked \/ page_res = Panicked THEN Panicked
    ELSE IF ~page_res.ok THEN RequestError("Parse", page_res.err)
    ELSE ResponseOf(header_res, page_res)

-----------------------------------------------------------------------------
(* The calls the client is run on.                                         *)

\* per operation a Url its key is made of and one it is not
GoodArg(op) ==
    CASE op = "view" -> <<Origin, "/">> \o sView \o <<"/", "7", "/">>
      [] op = "submissions" -> <<Origin>> \o sGoodCursor
      [] op = "reply" ->
            <<Origin, "/">> \o sView \o <<"/", "7", "/", "#">> \o sCid
            \o <<"5">>
      [] op \in {"fav", "unfav"} -> <<Origin>> \o sFavHref

BadArg(op) ==
    IF op = "submissions" THEN <<Origin, "/">> \o sView \o <<"/", "7", "/">>
    ELSE <<Origin, "/">>

SetCookiesCall(cookies) == [op |-> "set_cookies", cookies |-> cookies]
RequestCall(op, arg) == [op |-> op, arg |-> arg]

\* what the server answers
StatusSamples == {200, 404}

\* the bodies of a page: one that parses and one that does not
BodyNames == {"whole", "broken"}

ViewBody(name) ==
    IF name = "whole" THEN WholeView ELSE Without(WholeView, {"title"})

ListingBody(name) ==
    [buttons |-> <<>>,
     scripts |-> <<Script(TRUE, TRUE, Some(<<Entry(<<"7">>, "A")>>))>>,
     figures |-> IF name = "whole" THEN <<GoodFigure(<<"7">>)>>
                 ELSE <<GoodFigure(<<"x">>)>>]

\* the header of every body: that of a user who is logged in
BodyHeader ==
    [avatars |-> <<LoggedInAvatar(AvatarAttrs, [href |-> sMe])>>,
     bars |-> <<>>, notes |-> <<>>]

\* V::from_html of the body
BodyPage(op, base, name) ==
    IF op = "view" THEN {ViewFromHtml("debug", base, ViewBody(name))}
    ELSE {SubmissionsFromHtml(base, ListingBody(name), ds) :
            ds \in DescriptionsOf(ListingBody(name))}

InitClient ==
    /\ \E old \in {ClientNew, ClientWithCookies("a=1")} : client = old
    /\ lock = RwLockNew
    /\ \E op \in RequestOps, arg \in {"good", "bad"},
          third \in {SetCookiesCall("c=3"),
                     RequestCall("view", GoodArg("view"))} :
            page = [t \in Tasks |->
                      CASE t = "a" -> SetCookiesCall("b=2")
                        [] t = "b" -> RequestCall(op, IF arg = "good"
                                                      THEN GoodArg(op)
                                                      ELSE BadArg(op))
                        [] t = "c" -> third]
    /\ pc = [t \in Tasks |-> "start"]
    /\ fields = [t \in Tasks |-> NoLocals]
    /\ result = [t \in Tasks |-> None]
    /\ KeysIdle
    /\ HtmlIdle

-----------------------------------------------------------------------------
(* Client::set_cookies.                                                    *)

\* the task returns r
Returns(t, r) ==
    /\ result' = [result EXCEPT ![t] = Some(r)]
    /\ pc' = [pc EXCEPT ![t] = "returned"]

\* headers.insert(COOKIE, cookies.into()); self.client.write()
SetCookiesWrite(t) ==
    /\ pc[t] = "start"
    /\ page[t].op = "set_cookies"
    /\ lock' = Enqueue(lock, t, "write")
    /\ pc' = [pc EXCEPT ![t] = "write_wait"]
    /\ UNCHANGED <<page, fields, result, client>>
    /\ UNCHANGED keyVars
    /\ UNCHANGED htmlVars

\* .await of write(): the guard is handed to the task
SetCookiesAcquired(t) ==
    /\ pc[t] = "write_wait"
    /\ IsHead(lock, t, "write")
    /\ CanWrite(lock)
    /\ lock' = WriteGranted(lock, t)
    /\ fields' = [fields EXCEPT ![t].held = Some(client)]
    /\ pc' = [pc EXCEPT ![t] = "build"]
    /\ UNCHANGED <<page, result, client>>
    /\ UNCHANGED keyVars
    /\ UNCHANGED htmlVars

\* Self::builder().default_headers(headers).build()?: a failure returns
\* and drops the guard
SetCookiesBuild(t) ==
    /\ pc[t] = "build"
    /\ \E built \in BOOLEAN :
         IF built
         THEN /\ fields' = [fields EXCEPT
                              ![t].new = Some(ClientWithCookies(
                                                  page[t].cookies))]
              /\ pc' = [pc EXCEPT ![t] = "assign"]
              /\ UNCHANGED <<lock, result>>
         ELSE /\ Returns(t, Err("ClientError"))
              /\ lock' = WriteReleased(lock)
              /\ UNCHANGED fields
    /\ UNCHANGED <<page, client>>
    /\ UNCHANGED keyVars
    /\ UNCHANGED htmlVars

\* *client = ..: the old value is dropped in its place
SetCookiesDropOld(t) ==
    /\ pc[t] = "assign"
    /\ client' = DroppedClient
    /\ pc' = [pc EXCEPT ![t] = "store"]
    /\ UNCHANGED <<page, fields, result, lock>>
    /\ UNCHANGED keyVars
    /\ UNCHANGED htmlVars

\* the new value is moved in; Ok(()) and the guard is dropped
SetCookiesStore(t) ==
    /\ pc[t] = "store"
    /\ client' = Unwrap(fields[t].new)
    /\ lock' = WriteReleased(lock)
    /\ Returns(t, Ok("unit"))
    /\ UNCHANGED <<page, fields>>
    /\ UNCHANGED keyVars
    /\ UNCHANGED htmlVars

-----------------------------------------------------------------------------
(* Client::view, submissions, reply, fav and unfav.  The log of a task     *)
(* holds the steps it has taken, in their order.                           *)

Logged(t, step) == [fields EXCEPT ![t].log = Append(@, step)]

\* let key = key.try_into().context(errors::KeyError)?; let url = ..
RequestKey(t) ==
    /\ pc[t] = "start"
    /\ page[t].op \in RequestOps
    /\ LET k == ClientKey(page[t].op, page[t].arg)
           u == ClientUrl(page[t].op, k.val)
       IN  IF ~k.ok
           THEN /\ Returns(t, k)
                /\ fields' = Logged(t, "key")
           ELSE IF ~u.ok
           THEN /\ Returns(t, u)
                /\ fields' = [Logged(t, "key") EXCEPT ![t].key = Some(k.val)]
           ELSE /\ fields' = [Logged(t, "key") EXCEPT
                                ![t].key = Some(k.val),
                                ![t].url = Some(u.val)]
                /\ pc' = [pc EXCEPT ![t] = "read"]
                /\ UNCHANGED result
    /\ UNCHANGED <<page, client, lock>>
    /\ UNCHANGED keyVars
    /\ UNCHANGED htmlVars

\* self.client.read()
RequestRead(t) ==
    /\ pc[t] = "read"
    /\ lock' = Enqueue(lock, t, "read")
    /\ pc' = [pc EXCEPT ![t] = "read_wait"]
    /\ UNCHANGED <<page, fields, result, client>>
    /\ UNCHANGED keyVars
    /\ UNCHANGED htmlVars

\* .await of read(): the guard is handed to the task
RequestAcquired(t) ==
    /\ pc[t] = "read_wait"
    /\ IsHead(lock, t, "read")
    /\ CanRead(lock)
    /\ lock' = ReadGranted(lock, t)
    /\ pc' = [pc EXCEPT ![t] = "dispatch"]
    /\ UNCHANGED <<page, fields, result, client>>
    /\ UNCHANGED keyVars
    /\ UNCHANGED htmlVars

\* .get(url) or .post(url).form(&form), and .send(): the request is made
\* of the client behind the guard and is on its way
RequestSend(t) ==
    /\ pc[t] = "dispatch"
    /\ fields' = [Logged(t, "request") EXCEPT ![t].sent_with = Some(client)]
    /\ pc' = [pc EXCEPT ![t] = "sending"]
    /\ UNCHANGED <<page, result, client, lock>>
    /\ UNCHANGED keyVars
    /\ UNCHANGED htmlVars

\* .await?; of send(): the response or an error arrives, and the guard is
\* dropped at the end of the statement
RequestSent(t) ==
    /\ pc[t] = "sending"
    /\ lock' = ReadReleased(lock, t)
    /\ \/ /\ Returns(t, RequestError("Reqwest", "send"))
          /\ UNCHANGED fields
       \/ \E status \in StatusSamples :
            /\ fields' = [fields EXCEPT ![t].status = Some(status)]
            /\ pc' = [pc EXCEPT ![t] = "status"]
            /\ UNCHANGED result
    /\ UNCHANGED <<page, client>>
    /\ UNCHANGED keyVars
    /\ UNCHANGED htmlVars

\* ensure!(response.status().is_success(), errors::Unsuccessful {..});
\* reply, fav and unfav end here with Ok(())
RequestEnsure(t) ==
    /\ pc[t] = "status"
    /\ fields' = Logged(t, "status")
    /\ IF ~EnsureSuccess(Unwrap(fields[t].status))
       THEN Returns(t, RequestError("Unsuccessful", Unwrap(fields[t].status)))
       ELSE IF page[t].op \notin PageOps
       THEN Returns(t, Ok("unit"))
       ELSE /\ pc' = [pc EXCEPT ![t] = "text"]
            /\ UNCHANGED result
    /\ UNCHANGED <<page, client, lock>>
    /\ UNCHANGED keyVars
    /\ UNCHANGED htmlVars

\* let text = response.text().await?;
RequestText(t) ==
    /\ pc[t] = "text"
    /\ \/ /\ Returns(t, RequestError("Reqwest", "text"))
          /\ UNCHANGED fields
       \/ \E name \in BodyNames :
            /\ fields' = [fields EXCEPT ![t].body = Some(name)]
            /\ pc' = [pc EXCEPT ![t] = "parse"]
            /\ UNCHANGED result
    /\ UNCHANGED <<page, client, lock>>
    /\ UNCHANGED keyVars
    /\ UNCHANGED htmlVars

\* Html::parse_document(&text); Response::from_html(url, &html)
\*     .context(errors::Parse)
RequestParse(t) ==
    /\ pc[t] = "parse"
    /\ fields' = Logged(t, "parse")
    /\ \E page_res \in BodyPage(page[t].op, Unwrap(fields[t].url),
                                Unwrap(fields[t].body)) :
         Returns(t, ClientParse(HeaderFromHtml("debug", Unwrap(fields[t].url),
                                               BodyHeader),
                                page_res))
    /\ UNCHANGED <<page, client, lock>>
    /\ UNCHANGED keyVars
    /\ UNCHANGED htmlVars

NextClient ==
    \E t \in Tasks :
        \/ SetCookiesWrite(t)
        \/ SetCookiesAcquired(t)
        \/ SetCookiesBuild(t)
        \/ SetCookiesDropOld(t)
        \/ SetCookiesStore(t)
        \/ RequestKey(t)
        \/ RequestRead(t)
        \/ RequestAcquired(t)
        \/ RequestSend(t)
        \/ RequestSent(t)
        \/ RequestEnsure(t)
        \/ RequestText(t)
        \/ RequestParse(t)

SpecClient == InitClient /\ [][NextClient]_vars


-----------------------------------------------------------------------------
(* Properties of the client.                                               *)

SetCookiesTasks == {t \in Tasks : page[t].op = "set_cookies"}
RequestTasks == {t \in Tasks : page[t].op \in RequestOps}

\* the clients that were ever installed: the one the Client was made with
\* and those built by the calls of set_cookies
InstalledClients ==
    {ClientNew, ClientWithCookies("a=1")}
    \cup {ClientWithCookies(page[t].cookies) : t \in SetCookiesTasks}

\* the task holds the write guard and is assigning through it
Assigning(t) ==
    /\ lock.writer = Some(t)
    /\ pc[t] \in {"assign", "store"}

\* the call of t returns in this step with r
ReturnsNow(t, r) == result[t] = None /\ result'[t] = Some(r)

\* C26: under every interleaving of set_cookies with view, submissions,
\* reply, fav and unfav, a writer holds the lock alone, the client is
\* replaced only by the task that holds the write guard, and is whole
\* whenever no writer holds the lock; every request is made of one whole
\* client that was installed; and a set_cookies whose build fails returns
\* with the client it found.
C26_SingleWriterManyReaders ==
    /\ [](/\ lock.writer # None => lock.readers = {}
          /\ ~client.whole => lock.writer # None
          /\ \A t \in RequestTasks :
                fields[t].sent_with # None
                    => /\ Unwrap(fields[t].sent_with).whole
                       /\ Unwrap(fields[t].sent_with) \in InstalledClients)
    /\ [][/\ client' # client => \E t \in SetCookiesTasks : Assigning(t)
          /\ \A t \in SetCookiesTasks :
                ReturnsNow(t, Err("ClientError"))
                    => /\ client' = client
                       /\ client' = Unwrap(fields[t].held)]_vars

\* two requests hold shared access at once, one of them made of the client
\* that set_cookies installed
C26_Witness ==
    /\ {"b", "c"} \subseteq lock.readers
    /\ result["a"] = Some(Ok("unit"))
    /\ client = ClientWithCookies("b=2")
    /\ fields["b"].sent_with = Some(client)
    /\ pc["c"] = "dispatch"

\* the steps of a call, in their order
StepOrder == <<"key", "request", "status", "parse">>

IsPrefix(s, t) == Len(s) <= Len(t) /\ s = SubSeq(t, 1, Len(s))

ReturnedErr(t, kind) ==
    /\ result[t] # None
    /\ ~Unwrap(result[t]).ok
    /\ Unwrap(result[t]).err = kind

\* C27: the steps of view, submissions, reply, fav and unfav are taken in
\* the order key conversion, request, status check, page parse (reply, fav
\* and unfav parse no page); a call that returns KeyError has issued no
\* request, a call whose status is not a success returns Unsuccessful, and
\* a call that returns Unsuccessful has not parsed the body.
C27_FixedStepOrder ==
    \A t \in RequestTasks :
        /\ IsPrefix(fields[t].log, StepOrder)
        /\ page[t].op \notin PageOps => Len(fields[t].log) <= 3
        /\ ReturnedErr(t, "KeyError")
              => fields[t].log = <<"key">> /\ fields[t].sent_with = None
        /\ ReturnedErr(t, "Unsuccessful")
              => fields[t].log = <<"key", "request", "status">>
                 /\ fields[t].body = None
        /\ Len(fields[t].log) = 4
              => Unwrap(fields[t].status) \in 200..299
        /\ (/\ pc[t] = "returned"
            /\ fields[t].status # None
            /\ Unwrap(fields[t].status) \notin 200..299)
              => ReturnedErr(t, "Unsuccessful")

\* one call returned KeyError without a request, another Unsuccessful
\* without parsing the body
C27_Witness ==
    /\ ReturnedErr("b", "KeyError")
    /\ result["c"] = Some(RequestError("Unsuccessful", 404))

=============================================================================
